---- MODULE Spec2Model ----
(***************************************************************************)
(* Model of the terminalv3 memory-challenge game server: the session and   *)
(* player stores, the start and submit routes, the durable token table,    *)
(* in the two variants the repository holds: the cooldown variant (lenient *)
(* submit route, cooldown store, Supabase token table) and the earlier     *)
(* daily-limit variant (strict submit route, daily store, awardTokens).    *)
(* Times are milliseconds since the epoch, as Date.getTime() gives them.   *)
(***************************************************************************)
EXTENDS Integers, Sequences, FiniteSets, Bags, TLC

VARIABLES
    variant,   \* which build serves the requests: "cooldown" or "daily"
    now,       \* the wall clock, ms
    players,   \* store: Map<number, PlayerData>, fid -> record
    sessions,  \* store: Map<string, GameSession>, session id -> record
    issued,    \* number of values generateNonce has returned so far
    db,        \* Supabase table player_tokens: fid -> total_tokens
    reqs,      \* the submit requests in flight, each at one of its awaits (a bag)
    resp,      \* the HTTP response a handler has produced, until it is sent
    call       \* the submit request resp answers, with the session the route read

vars == <<variant, now, players, sessions, issued, db, reqs, resp, call>>

----------------------------------------------------------------------------
(* Bounds of the model. *)

MaxFid == 2          \* player ids 1..MaxFid
MaxSessions == 2     \* sessions created in one run
MaxIssued == 4       \* values generateNonce returns in one run, cooldown variant
MaxIssuedDaily == 7  \* values generateNonce returns in one run, daily variant
MaxReqs == 2         \* submit requests in flight at once
MaxTicks == 1        \* clock steps in the route specification
MaxDays == 1         \* day changes in the daily variant
StoreMaxTicks == 6   \* clock steps in the store-level specification
MaxAmount == 4       \* largest amount handed to awardTokens
MaxCalls == 2        \* bound on the counters the store operations increment
MaxStoreFid == 1     \* player ids in the store-level specification

TickMs == 60000      \* one clock step, ms

Fids == 1..MaxFid

\* the bound on generateNonce in the variant that runs
IssuedLimit == IF variant = "cooldown" THEN MaxIssued ELSE MaxIssuedDaily

----------------------------------------------------------------------------
(* JavaScript values that are not numbers, kept apart from every number the *)
(* model uses (counts and times are >= 0).                                  *)

Null == -1
Undefined == -2
NaN == -3

IsNumber(x) == x >= 0

\* a faulty count: the counter is copied and not incremented
JsIncKeeps(x) == IF IsNumber(x) THEN x ELSE NaN

\* x + 1 and x += 1 on a value that may be undefined or NaN
JsInc(x) == IF IsNumber(x) THEN x + 1 ELSE NaN

\* !x for a request field
Falsy(x) == x = Undefined \/ x = Null \/ x = 0

Min(a, b) == IF a <= b THEN a ELSE b

\* { ...obj, ...updates }
Merge(obj, updates) ==
    [k \in DOMAIN obj \cup DOMAIN updates |->
        IF k \in DOMAIN updates THEN updates[k] ELSE obj[k]]

\* the UTC calendar day (year, month, date) of a time
MS_PER_DAY == 86400000
UtcDay(t) == t \div MS_PER_DAY

----------------------------------------------------------------------------
(* gameLogic, cooldown variant. *)

ROUND_CONFIG ==
    << [round |-> 1, numberCount |-> 5, displayTime |-> 10, optionCount |-> 3],
       [round |-> 2, numberCount |-> 4, displayTime |-> 10, optionCount |-> 3],
       [round |-> 3, numberCount |-> 3, displayTime |-> 10, optionCount |-> 3] >>

MAX_SESSIONS_PER_COOLDOWN == 1
COOLDOWN_MINUTES == 5
MAX_TOKENS_PER_SESSION == 50
TOKENS_PER_CORRECT == 10
BONUS_TOKENS == 20
TOTAL_ROUNDS == 3

RAND_SPAN == 900
RAND_BASE == 100

\* Math.floor(Math.random() * 900) + 100, for u = Math.floor(Math.random() * 900)
RandomNumber(u) == (u % RAND_SPAN) + RAND_BASE

\* A stream is the sequence of values Math.floor(Math.random() * 900) takes
\* in one round generation (read cyclically).
Draw(stream, i) == RandomNumber(stream[((i - 1) % Len(stream)) + 1])

Includes(seq, x) == \E i \in 1..Len(seq) : seq[i] = x

\* generateNumbers: draw until `count` distinct values are collected; the
\* result is the Set in insertion order. Returns the numbers and the
\* position of the next unread draw.
RECURSIVE GenNumbersFrom(_, _, _, _)
GenNumbersFrom(count, stream, pos, acc) ==
    IF Len(acc) >= count
    THEN [numbers |-> acc, pos |-> pos]
    ELSE LET num == Draw(stream, pos)
         IN GenNumbersFrom(count, stream, pos + 1,
                IF Includes(acc, num) THEN acc ELSE Append(acc, num))

generateNumbers(count, stream) == GenNumbersFrom(count, stream, 1, <<>>)

\* a faulty generateFakeNumber: the first draw is taken as it comes
generateFakeNumberUnchecked(shownNumbers, stream, pos) ==
    Draw(stream, pos)

\* generateFakeNumber: draw until a value not among the shown numbers appears
RECURSIVE generateFakeNumber(_, _, _)
generateFakeNumber(shownNumbers, stream, pos) ==
    LET fakeNumber == Draw(stream, pos)
    IN IF Includes(shownNumbers, fakeNumber)
       THEN generateFakeNumber(shownNumbers, stream, pos + 1)
       ELSE fakeNumber

\* [...a].sort(() => Math.random() - 0.5): a permutation of a that the
\* comparisons' random outcomes decide. The outcome is the number k of the
\* permutation: its first element is a[(k mod n) + 1], and the remaining
\* elements are permuted by k div n.
RECURSIVE Shuffle(_, _)
Shuffle(seq, k) ==
    IF Len(seq) = 0 THEN <<>>
    ELSE LET n == Len(seq)
             i == (k % n) + 1
             rest == [j \in 1..(n - 1) |-> IF j < i THEN seq[j] ELSE seq[j + 1]]
         IN <<seq[i]>> \o Shuffle(rest, k \div n)

\* a.slice(0, end): a negative end counts from the end of the array
Slice(seq, end) ==
    LET last == IF end < 0
                THEN (IF Len(seq) + end < 0 THEN 0 ELSE Len(seq) + end)
                ELSE Min(end, Len(seq))
    IN SubSeq(seq, 1, last)

\* a faulty createSelectionOptions: optionCount shown numbers are kept
createSelectionOptionsOneMore(shownNumbers, fakeNumber, optionCount, k1, k2) ==
    LET shuffled == Shuffle(shownNumbers, k1)
        realNumbers == Slice(shuffled, optionCount)
    IN Shuffle(Append(realNumbers, fakeNumber), k2)

createSelectionOptions(shownNumbers, fakeNumber, optionCount, k1, k2) ==
    LET shuffled == Shuffle(shownNumbers, k1)
        realNumbers == Slice(shuffled, optionCount - 1)
    IN Shuffle(Append(realNumbers, fakeNumber), k2)

getRoundConfig(round) ==
    IF round \in 1..Len(ROUND_CONFIG) THEN ROUND_CONFIG[round] ELSE ROUND_CONFIG[1]

\* The outcomes of the random source that are explored for one round
\* generation: the draws of the numbers and the two shuffles
RandomOutcomes ==
    { [stream |-> <<0, 1, 2, 3, 4, 5, 6, 7, 8, 9, 10>>, k1 |-> 0, k2 |-> 1],
      [stream |-> <<899, 899, 400, 0, 400, 150, 650, 1, 2, 3, 4, 5, 6>>,
       k1 |-> 1, k2 |-> 0] }

----------------------------------------------------------------------------
(* gameLogic, daily variant (what differs from the cooldown variant). *)

ROUND_CONFIG_DAILY ==
    << [round |-> 1, numberCount |-> 6, displayTime |-> 10],
       [round |-> 2, numberCount |-> 8, displayTime |-> 9],
       [round |-> 3, numberCount |-> 10, displayTime |-> 8] >>

MAX_SESSIONS_PER_DAY == 3
MAX_TOKENS_PER_DAY == 3

getRoundConfigDaily(round) ==
    IF round \in 1..Len(ROUND_CONFIG_DAILY)
    THEN ROUND_CONFIG_DAILY[round] ELSE ROUND_CONFIG_DAILY[1]

\* isToday(date), evaluated at time t
isToday(date, t) == UtcDay(date) = UtcDay(t)

----------------------------------------------------------------------------
(* store, cooldown variant. Every operation that goes through getPlayer     *)
(* changes the players map (lazy creation, lazy cooldown reset), so each    *)
(* operator takes the map and the time and returns the map it leaves.       *)

NewPlayerData(fid) ==
    [fid |-> fid, sessionsInCooldown |-> 0, lastPlayedAt |-> Null,
     cooldownEndsAt |-> Null, totalTokens |-> 0, perfectSessions |-> 0,
     currentStreak |-> 0, lastStreakDate |-> Null]

\* a faulty isCooldownExpired: the cooldown still holds at cooldownEndsAt itself
isCooldownExpiredStrict(cooldownEndsAt, t) ==
    IF cooldownEndsAt = Null THEN TRUE ELSE t > cooldownEndsAt

isCooldownExpired(cooldownEndsAt, t) ==
    IF cooldownEndsAt = Null THEN TRUE ELSE t >= cooldownEndsAt

\* a faulty getRemainingCooldown: the operands of the difference are swapped
getRemainingCooldownSwapped(cooldownEndsAt, t) ==
    IF cooldownEndsAt = Null THEN 0
    ELSE IF t - cooldownEndsAt > 0 THEN t - cooldownEndsAt ELSE 0

getRemainingCooldown(cooldownEndsAt, t) ==
    IF cooldownEndsAt = Null THEN 0
    ELSE IF cooldownEndsAt - t > 0 THEN cooldownEndsAt - t ELSE 0

\* hours, minutes, seconds of the "hh:mm:ss" string
formatCooldownTime(ms) ==
    IF ms <= 0 THEN <<0, 0, 0>>
    ELSE << ms \div (1000 * 60 * 60),
            (ms % (1000 * 60 * 60)) \div (1000 * 60),
            (ms % (1000 * 60)) \div 1000 >>

\* a faulty getPlayer: the counter is reset, the ended cooldown is kept
getPlayerKeepsCooldownEnd(ps, fid, t) ==
    LET created == IF fid \in DOMAIN ps THEN ps ELSE (fid :> NewPlayerData(fid)) @@ ps
        player == created[fid]
    IN IF isCooldownExpired(player.cooldownEndsAt, t)
       THEN [created EXCEPT ![fid] = [player EXCEPT !.sessionsInCooldown = 0]]
       ELSE created

getPlayer(ps, fid, t) ==
    LET created == IF fid \in DOMAIN ps THEN ps ELSE (fid :> NewPlayerData(fid)) @@ ps
        player == created[fid]
    IN IF isCooldownExpired(player.cooldownEndsAt, t)
       THEN [created EXCEPT ![fid] =
                [player EXCEPT !.sessionsInCooldown = 0, !.cooldownEndsAt = Null]]
       ELSE created

updatePlayer(ps, fid, updates, t) ==
    LET ps1 == getPlayer(ps, fid, t)
    IN [ps1 EXCEPT ![fid] = Merge(ps1[fid], updates)]

canStartSession(ps, fid, t) ==
    LET ps1 == getPlayer(ps, fid, t)
        player == ps1[fid]
    IN [players |-> ps1,
        result |->
          IF player.sessionsInCooldown >= MAX_SESSIONS_PER_COOLDOWN
             /\ ~isCooldownExpired(player.cooldownEndsAt, t)
          THEN [allowed |-> FALSE,
                reason |-> formatCooldownTime(
                              getRemainingCooldown(player.cooldownEndsAt, t)),
                cooldownEndsAt |-> player.cooldownEndsAt]
          ELSE [allowed |-> TRUE]]

\* a faulty startSessionCooldown: the counter is set to 1, not incremented
startSessionCooldownSetsOne(ps, fid, t) ==
    LET ps1 == getPlayer(ps, fid, t)
        cooldownEnd == t + COOLDOWN_MINUTES * 60 * 1000
    IN updatePlayer(ps1, fid,
          [sessionsInCooldown |-> 1,
           lastPlayedAt |-> t,
           cooldownEndsAt |-> cooldownEnd], t)

startSessionCooldown(ps, fid, t) ==
    LET ps1 == getPlayer(ps, fid, t)
        player == ps1[fid]
        cooldownEnd == t + COOLDOWN_MINUTES * 60 * 1000
    IN updatePlayer(ps1, fid,
          [sessionsInCooldown |-> player.sessionsInCooldown + 1,
           lastPlayedAt |-> t,
           cooldownEndsAt |-> cooldownEnd], t)

\* a faulty streak: "yesterday" is taken to be at most 24 hours ago
StreakUpdatesByElapsedTime(player, t) ==
    IF player.lastStreakDate # Null
    THEN LET isSameDay == UtcDay(player.lastStreakDate) = UtcDay(t)
             isYesterday == ~isSameDay /\ t - player.lastStreakDate <= MS_PER_DAY
         IN IF isYesterday THEN [currentStreak |-> player.currentStreak + 1]
            ELSE IF ~isSameDay THEN [currentStreak |-> 1]
            ELSE <<>>
    ELSE [currentStreak |-> 1]

\* the streak part of recordSessionCompletion: the updates it adds
StreakUpdates(player, t) ==
    IF player.lastStreakDate # Null
    THEN LET isSameDay == UtcDay(player.lastStreakDate) = UtcDay(t)
             isYesterday == UtcDay(player.lastStreakDate) = UtcDay(t) - 1
         IN IF isYesterday THEN [currentStreak |-> player.currentStreak + 1]
            ELSE IF ~isSameDay THEN [currentStreak |-> 1]
            ELSE <<>>
    ELSE [currentStreak |-> 1]

\* a faulty recordSessionCompletion: the cooldown is started at completion
recordSessionCompletionEngages(ps, fid, perfect, t) ==
    LET ps1 == getPlayer(ps, fid, t)
        player == ps1[fid]
        u1 == IF perfect THEN [perfectSessions |-> player.perfectSessions + 1] ELSE <<>>
        u2 == Merge(u1, StreakUpdates(player, t))
        updates == Merge(u2, [lastStreakDate |-> t,
                              sessionsInCooldown |-> player.sessionsInCooldown + 1,
                              lastPlayedAt |-> t,
                              cooldownEndsAt |-> t + COOLDOWN_MINUTES * 60 * 1000])
    IN updatePlayer(ps1, fid, updates, t)

recordSessionCompletion(ps, fid, perfect, t) ==
    LET ps1 == getPlayer(ps, fid, t)
        player == ps1[fid]
        u1 == IF perfect THEN [perfectSessions |-> player.perfectSessions + 1] ELSE <<>>
        u2 == Merge(u1, StreakUpdates(player, t))
        updates == Merge(u2, [lastStreakDate |-> t])
    IN updatePlayer(ps1, fid, updates, t)

getPlayerStats(ps, fid, t) ==
    LET ps1 == getPlayer(ps, fid, t)
        player == ps1[fid]
        cooldownExpired == isCooldownExpired(player.cooldownEndsAt, t)
        remainingMs == getRemainingCooldown(player.cooldownEndsAt, t)
    IN [players |-> ps1,
        result |->
          [sessionsUsed |-> player.sessionsInCooldown,
           canPlay |-> cooldownExpired
                       \/ player.sessionsInCooldown < MAX_SESSIONS_PER_COOLDOWN,
           cooldownEndsAt |-> player.cooldownEndsAt,
           cooldownRemaining |-> remainingMs,
           cooldownFormatted |-> formatCooldownTime(remainingMs),
           totalTokens |-> player.totalTokens,
           perfectSessions |-> player.perfectSessions,
           currentStreak |-> player.currentStreak]]

----------------------------------------------------------------------------
(* store, daily variant. *)

NewPlayerDataDaily(fid) ==
    [fid |-> fid, dailySessions |-> 0, lastPlayedAt |-> Null, tokensToday |-> 0,
     totalTokens |-> 0, perfectSessions |-> 0, currentStreak |-> 0,
     lastStreakDate |-> Null]

getPlayerDaily(ps, fid, t) ==
    LET created == IF fid \in DOMAIN ps THEN ps
                   ELSE (fid :> NewPlayerDataDaily(fid)) @@ ps
        player == created[fid]
    IN IF player.lastPlayedAt # Null /\ ~isToday(player.lastPlayedAt, t)
       THEN [created EXCEPT ![fid] =
                [player EXCEPT !.dailySessions = 0, !.tokensToday = 0]]
       ELSE created

updatePlayerDaily(ps, fid, updates, t) ==
    LET ps1 == getPlayerDaily(ps, fid, t)
    IN [ps1 EXCEPT ![fid] = Merge(ps1[fid], updates)]

canStartSessionDaily(ps, fid, t) ==
    LET ps1 == getPlayerDaily(ps, fid, t)
        player == ps1[fid]
    IN [players |-> ps1,
        result |->
          IF player.dailySessions >= MAX_SESSIONS_PER_DAY
          THEN [allowed |-> FALSE, reason |-> MAX_SESSIONS_PER_DAY]
          ELSE [allowed |-> TRUE]]

\* a faulty awardTokens: the amount is credited without regard to the daily cap
awardTokensUncapped(ps, fid, amount, t) ==
    LET ps1 == getPlayerDaily(ps, fid, t)
        player == ps1[fid]
    IN [players |->
          IF amount > 0
          THEN updatePlayerDaily(ps1, fid,
                  [tokensToday |-> player.tokensToday + amount,
                   totalTokens |-> player.totalTokens + amount], t)
          ELSE ps1,
        result |-> amount]

awardTokens(ps, fid, amount, t) ==
    LET ps1 == getPlayerDaily(ps, fid, t)
        player == ps1[fid]
        tokensToAward == Min(amount, MAX_TOKENS_PER_DAY - player.tokensToday)
    IN [players |->
          IF tokensToAward > 0
          THEN updatePlayerDaily(ps1, fid,
                  [tokensToday |-> player.tokensToday + tokensToAward,
                   totalTokens |-> player.totalTokens + tokensToAward], t)
          ELSE ps1,
        result |-> tokensToAward]

StreakUpdatesDaily(player, t) ==
    IF player.lastStreakDate # Null
    THEN IF UtcDay(player.lastStreakDate) = UtcDay(t) - 1
         THEN [currentStreak |-> player.currentStreak + 1]
         ELSE IF ~isToday(player.lastStreakDate, t) THEN [currentStreak |-> 1]
         ELSE <<>>
    ELSE [currentStreak |-> 1]

recordSessionCompletionDaily(ps, fid, perfect, t) ==
    LET ps1 == getPlayerDaily(ps, fid, t)
        player == ps1[fid]
        u0 == [dailySessions |-> player.dailySessions + 1, lastPlayedAt |-> t]
        u1 == IF perfect
              THEN Merge(u0, [perfectSessions |-> player.perfectSessions + 1])
              ELSE u0
        u2 == Merge(u1, StreakUpdatesDaily(player, t))
        updates == Merge(u2, [lastStreakDate |-> t])
    IN updatePlayerDaily(ps1, fid, updates, t)

getPlayerStatsDaily(ps, fid, t) ==
    LET ps1 == getPlayerDaily(ps, fid, t)
        player == ps1[fid]
    IN [players |-> ps1,
        result |->
          [sessionsToday |-> player.dailySessions,
           sessionsRemaining |-> MAX_SESSIONS_PER_DAY - player.dailySessions,
           tokensToday |-> player.tokensToday,
           totalTokens |-> player.totalTokens,
           perfectSessions |-> player.perfectSessions,
           currentStreak |-> player.currentStreak,
           canPlay |-> player.dailySessions < MAX_SESSIONS_PER_DAY]]

----------------------------------------------------------------------------
(* store: the session map (the same in both variants). *)

createSession(ss, session) == (session.id :> session) @@ ss

\* getSession: Found tells a session from undefined
HasSession(ss, sessionId) == sessionId \in DOMAIN ss

\* a faulty update: a session that is marked completed is disposed of
updateSessionDisposesCompleted(ss, sessionId, updates) ==
    IF sessionId \notin DOMAIN ss THEN ss
    ELSE IF "completed" \in DOMAIN updates /\ updates.completed
    THEN [id \in DOMAIN ss \ {sessionId} |-> ss[id]]
    ELSE [ss EXCEPT ![sessionId] = Merge(ss[sessionId], updates)]

updateSession(ss, sessionId, updates) ==
    IF sessionId \notin DOMAIN ss THEN ss
    ELSE [ss EXCEPT ![sessionId] = Merge(ss[sessionId], updates)]

deleteSession(ss, sessionId) ==
    [id \in DOMAIN ss \ {sessionId} |-> ss[id]]

----------------------------------------------------------------------------
(* The routes. `@/lib/store` and `@/lib/gameLogic` resolve to the module of *)
(* the variant that is running.                                             *)

StoreCanStartSession(ps, fid, t) ==
    IF variant = "cooldown" THEN canStartSession(ps, fid, t)
    ELSE canStartSessionDaily(ps, fid, t)

StoreGetPlayer(ps, fid, t) ==
    IF variant = "cooldown" THEN getPlayer(ps, fid, t) ELSE getPlayerDaily(ps, fid, t)

StoreUpdatePlayer(ps, fid, updates, t) ==
    IF variant = "cooldown" THEN updatePlayer(ps, fid, updates, t)
    ELSE updatePlayerDaily(ps, fid, updates, t)

LogicRoundConfig(round) ==
    IF variant = "cooldown"
    THEN [numberCount |-> getRoundConfig(round).numberCount,
          displayTime |-> getRoundConfig(round).displayTime,
          optionCount |-> getRoundConfig(round).optionCount]
    ELSE [numberCount |-> getRoundConfigDaily(round).numberCount,
          displayTime |-> getRoundConfigDaily(round).displayTime,
          optionCount |-> Undefined]

\* generateNonce: 16 random bytes in hex; a value never returned before
generateNonce(n) == n + 1

\* a property the object may lack reads as undefined
Field(obj, k) == IF k \in DOMAIN obj THEN obj[k] ELSE Undefined

\* a - b on values that may be undefined or NaN
JsMinus(a, b) == IF IsNumber(a) /\ IsNumber(b) THEN a - b ELSE NaN

\* the default parameter optionCount = 3, and the daily variant's slice(0, 2)
DEFAULT_OPTION_COUNT == 3

\* the three generator calls of a route, on one outcome of the random source
GenerateRound(numberCount, optionCount, rnd) ==
    LET g == generateNumbers(numberCount, rnd.stream)
        fakeNumber == generateFakeNumber(g.numbers, rnd.stream, g.pos)
    IN [shownNumbers |-> g.numbers,
        fakeNumber |-> fakeNumber,
        selectionOptions |->
            createSelectionOptions(g.numbers, fakeNumber, optionCount, rnd.k1, rnd.k2)]

Response(op, status, body) == [op |-> op, status |-> status, body |-> body]

\* NextResponse.json writes the body with JSON.stringify: of the number-valued
\* properties, one that is undefined is left out and one that is NaN is
\* written null
JsonNumbers(fields) ==
    [k \in {j \in DOMAIN fields : fields[j] # Undefined} |->
        IF fields[k] = NaN THEN Null ELSE fields[k]]

NoResponse == Response("none", 0, <<>>)

\* a submit request as the route received it, and in `found` what getSession
\* returned for it: << >> for undefined, else the session read
SubmitCall(fid, sessionId, selectedNumber, nonce, found) ==
    [op |-> "submit", fid |-> fid, sessionId |-> sessionId,
     selectedNumber |-> selectedNumber, nonce |-> nonce, found |-> found]

NoCall == [op |-> "none", fid |-> Undefined, sessionId |-> Undefined,
           selectedNumber |-> Undefined, nonce |-> Undefined, found |-> <<>>]

\* the query of a request for the options
FetchCall(sessionId, nonce) ==
    [NoCall EXCEPT !.op = "options", !.sessionId = sessionId, !.nonce = nonce]

\* A handler runs to its next await before anything else happens, and the
\* response it produces is sent before the next handler step is taken.
Idle == resp = NoResponse

\* the session object the start route builds; it sets neither correctAnswers
\* nor wrongAnswers, which therefore read as undefined
StartedSession(fid, sessionId, nonce, gen, roundConfig, t) ==
    [id |-> sessionId, fid |-> fid, round |-> 1,
     shownNumbers |-> gen.shownNumbers, fakeNumber |-> gen.fakeNumber,
     selectionOptions |-> gen.selectionOptions, nonce |-> nonce,
     startedAt |-> t, roundStartedAt |-> t,
     displayTime |-> roundConfig.displayTime,
     tokensEarned |-> 0, completed |-> FALSE,
     correctAnswers |-> Undefined, wrongAnswers |-> Undefined]

\* a faulty start result: the session object is returned along with it
StartResultWithSession(session, player) ==
    Merge(session,
          Merge([sessionId |-> session.id, round |-> 1,
                 numbers |-> session.shownNumbers,
                 displayTime |-> session.displayTime * 1000,
                 nonce |-> session.nonce],
                JsonNumbers([sessionsRemaining |->
                   JsMinus(JsMinus(3, Field(player, "dailySessions")), 1)])))

\* the body of the start route's success response
StartResult(session, player) ==
    Merge([sessionId |-> session.id, round |-> 1,
           numbers |-> session.shownNumbers,
           displayTime |-> session.displayTime * 1000,
           nonce |-> session.nonce],
          JsonNumbers([sessionsRemaining |->
             JsMinus(JsMinus(3, Field(player, "dailySessions")), 1)]))

\* POST /api/game/start
StartSession(fid) ==
    /\ Idle
    /\
       IF Falsy(fid)
       THEN /\ resp' = Response("start", 400, [error |-> "Invalid fid"])
            /\ call' = NoCall
            /\ UNCHANGED <<variant, now, players, sessions, issued, db, reqs>>
       ELSE
         LET canStart == StoreCanStartSession(players, fid, now) IN
         IF ~canStart.result.allowed
         THEN /\ players' = canStart.players
              /\ resp' = Response("start", 429,
                            [error |-> canStart.result.reason, code |-> "SESSION_LIMIT"])
              /\ call' = NoCall
              /\ UNCHANGED <<variant, now, sessions, issued, db, reqs>>
         ELSE
           \E rnd \in RandomOutcomes :
           LET roundConfig == LogicRoundConfig(1)
               gen == GenerateRound(roundConfig.numberCount, DEFAULT_OPTION_COUNT, rnd)
               nonce == generateNonce(issued)
               sessionId == generateNonce(issued + 1)
               session == StartedSession(fid, sessionId, nonce, gen, roundConfig, now)
               ps1 == StoreGetPlayer(canStart.players, fid, now)
               player == ps1[fid]
           IN /\ Cardinality(DOMAIN sessions) < MaxSessions
              /\ issued + 2 <= IssuedLimit
              /\ sessions' = createSession(sessions, session)
              /\ issued' = issued + 2
              /\ players' = StoreUpdatePlayer(ps1, fid, [lastPlayedAt |-> now], now)
              /\ resp' = Response("start", 200, StartResult(session, player))
              /\ call' = NoCall
              /\ UNCHANGED <<variant, now, db, reqs>>

\* GET /api/game/submit: the selection options of the current round
\* a faulty GET: delivering the options restarts the round's clock
FetchOptionsStartsClock(sessionId, nonce) ==
    /\ Idle
    /\ resp' =
         IF Falsy(sessionId) \/ Falsy(nonce)
         THEN Response("options", 400, [error |-> "Missing sessionId or nonce"])
         ELSE IF ~HasSession(sessions, sessionId)
         THEN Response("options", 404, [error |-> "Session not found"])
         ELSE IF sessions[sessionId].nonce # nonce
         THEN Response("options", 400, [error |-> "Invalid nonce"])
         ELSE Response("options", 200,
                 [options |-> sessions[sessionId].selectionOptions,
                  round |-> sessions[sessionId].round])
    /\ sessions' =
         IF resp'.status = 200
         THEN updateSession(sessions, sessionId, [roundStartedAt |-> now])
         ELSE sessions
    /\ call' = FetchCall(sessionId, nonce)
    /\ UNCHANGED <<variant, now, players, issued, db, reqs>>

\* a faulty GET: the nonce of the request is not compared with the session's
FetchOptionsAnyNonce(sessionId, nonce) ==
    /\ Idle
    /\ resp' =
         IF Falsy(sessionId) \/ Falsy(nonce)
         THEN Response("options", 400, [error |-> "Missing sessionId or nonce"])
         ELSE IF ~HasSession(sessions, sessionId)
         THEN Response("options", 404, [error |-> "Session not found"])
         ELSE Response("options", 200,
                 [options |-> sessions[sessionId].selectionOptions,
                  round |-> sessions[sessionId].round])
    /\ call' = FetchCall(sessionId, nonce)
    /\ UNCHANGED <<variant, now, players, sessions, issued, db, reqs>>

FetchOptions(sessionId, nonce) ==
    /\ Idle
    /\ resp' =
         IF Falsy(sessionId) \/ Falsy(nonce)
         THEN Response("options", 400, [error |-> "Missing sessionId or nonce"])
         ELSE IF ~HasSession(sessions, sessionId)
         THEN Response("options", 404, [error |-> "Session not found"])
         ELSE IF sessions[sessionId].nonce # nonce
         THEN Response("options", 400, [error |-> "Invalid nonce"])
         ELSE Response("options", 200,
                 [options |-> sessions[sessionId].selectionOptions,
                  round |-> sessions[sessionId].round])
    /\ call' = FetchCall(sessionId, nonce)
    /\ UNCHANGED <<variant, now, players, sessions, issued, db, reqs>>

----------------------------------------------------------------------------
(* POST /api/game/submit. *)

NoRejection == [status |-> 200, error |-> ""]

\* a faulty validation: the completed test is made before the nonce test
SubmitRejectionCompletedFirst(ss, fid, sessionId, selectedNumber, nonce) ==
    IF Falsy(fid) \/ Falsy(sessionId) \/ selectedNumber = Undefined \/ Falsy(nonce)
    THEN [status |-> 400, error |-> "Missing required fields"]
    ELSE IF ~HasSession(ss, sessionId)
    THEN [status |-> 404, error |-> "Session not found"]
    ELSE IF ss[sessionId].fid # fid
    THEN [status |-> 403, error |-> "Session mismatch"]
    ELSE IF ss[sessionId].completed
    THEN [status |-> 400, error |-> "Session already completed"]
    ELSE IF ss[sessionId].nonce # nonce
    THEN [status |-> 400, error |-> "Invalid nonce"]
    ELSE NoRejection

\* a faulty validation: the completed test is missing
SubmitRejectionNoCompleted(ss, fid, sessionId, selectedNumber, nonce) ==
    IF Falsy(fid) \/ Falsy(sessionId) \/ selectedNumber = Undefined \/ Falsy(nonce)
    THEN [status |-> 400, error |-> "Missing required fields"]
    ELSE IF ~HasSession(ss, sessionId)
    THEN [status |-> 404, error |-> "Session not found"]
    ELSE IF ss[sessionId].fid # fid
    THEN [status |-> 403, error |-> "Session mismatch"]
    ELSE IF ss[sessionId].nonce # nonce
    THEN [status |-> 400, error |-> "Invalid nonce"]
    ELSE NoRejection

\* a faulty validation: the nonce test is made before the owner test
SubmitRejectionNonceFirst(ss, fid, sessionId, selectedNumber, nonce) ==
    IF Falsy(fid) \/ Falsy(sessionId) \/ selectedNumber = Undefined \/ Falsy(nonce)
    THEN [status |-> 400, error |-> "Missing required fields"]
    ELSE IF ~HasSession(ss, sessionId)
    THEN [status |-> 404, error |-> "Session not found"]
    ELSE IF ss[sessionId].nonce # nonce
    THEN [status |-> 400, error |-> "Invalid nonce"]
    ELSE IF ss[sessionId].fid # fid
    THEN [status |-> 403, error |-> "Session mismatch"]
    ELSE IF ss[sessionId].completed
    THEN [status |-> 400, error |-> "Session already completed"]
    ELSE NoRejection

\* the validation of the request, in the order the route makes its checks
SubmitRejection(ss, fid, sessionId, selectedNumber, nonce) ==
    IF Falsy(fid) \/ Falsy(sessionId) \/ selectedNumber = Undefined \/ Falsy(nonce)
    THEN [status |-> 400, error |-> "Missing required fields"]
    ELSE IF ~HasSession(ss, sessionId)
    THEN [status |-> 404, error |-> "Session not found"]
    ELSE IF ss[sessionId].fid # fid
    THEN [status |-> 403, error |-> "Session mismatch"]
    ELSE IF ss[sessionId].nonce # nonce
    THEN [status |-> 400, error |-> "Invalid nonce"]
    ELSE IF ss[sessionId].completed
    THEN [status |-> 400, error |-> "Session already completed"]
    ELSE NoRejection

\* a faulty count of the session's tokens: the bonus of a perfect game,
\* BONUS_TOKENS, is added when the last round completes the full amount
TokensEarnedWithBonus(session, tokensAwarded) ==
    session.tokensEarned + tokensAwarded
      + (IF /\ session.round >= TOTAL_ROUNDS
            /\ session.tokensEarned + tokensAwarded
                  = TOTAL_ROUNDS * TOKENS_PER_CORRECT
         THEN BONUS_TOKENS ELSE 0)

\* newTokensEarned: the session's tokens and those of this answer
TokensEarnedAfter(session, tokensAwarded) ==
    session.tokensEarned + tokensAwarded

\* The cooldown variant's route from the last-round test to its response,
\* run on the session object read at validation (`session`) and the stores as
\* they are when this part runs. Returns the stores it leaves and the response.
SubmitOutcome(ss, ps, iss, t, fid, sessionId, session, isCorrect, rnd) ==
    LET tokensAwarded == IF isCorrect THEN TOKENS_PER_CORRECT ELSE 0
        newCorrectAnswers ==
            IF isCorrect THEN JsInc(session.correctAnswers) ELSE session.correctAnswers
        newWrongAnswers ==
            IF isCorrect THEN session.wrongAnswers ELSE JsInc(session.wrongAnswers)
        newTokensEarned == TokensEarnedAfter(session, tokensAwarded)
    IN IF session.round >= TOTAL_ROUNDS
       THEN LET perfect == newWrongAnswers = 0
                ps1 == recordSessionCompletion(ps, fid, perfect, t)
                stats == getPlayerStats(ps1, fid, t)
            IN [sessions |-> updateSession(ss, sessionId,
                                [completed |-> TRUE,
                                 tokensEarned |-> newTokensEarned,
                                 correctAnswers |-> newCorrectAnswers,
                                 wrongAnswers |-> newWrongAnswers]),
                players |-> stats.players,
                issued |-> iss,
                resp |-> Response("submit", 200,
                    Merge([correct |-> isCorrect,
                           message |-> IF perfect THEN "CONNECTION FULLY SECURED"
                                       ELSE "SESSION COMPLETE",
                           sessionComplete |-> TRUE,
                           totalTime |-> (t - session.startedAt) \div 1000,
                           perfectGame |-> perfect,
                           stats |-> stats.result],
                          JsonNumbers([tokensEarned |-> newTokensEarned,
                                       correctAnswers |-> newCorrectAnswers,
                                       wrongAnswers |-> newWrongAnswers])))]
       ELSE LET nextRound == session.round + 1
                roundConfig == getRoundConfig(nextRound)
                gen == GenerateRound(roundConfig.numberCount,
                                     roundConfig.optionCount, rnd)
                newNonce == generateNonce(iss)
            IN [sessions |-> updateSession(ss, sessionId,
                                [round |-> nextRound,
                                 shownNumbers |-> gen.shownNumbers,
                                 fakeNumber |-> gen.fakeNumber,
                                 selectionOptions |-> gen.selectionOptions,
                                 nonce |-> newNonce,
                                 roundStartedAt |-> t,
                                 displayTime |-> roundConfig.displayTime,
                                 tokensEarned |-> newTokensEarned,
                                 correctAnswers |-> newCorrectAnswers,
                                 wrongAnswers |-> newWrongAnswers]),
                players |-> ps,
                issued |-> iss + 1,
                resp |-> Response("submit", 200,
                    [correct |-> isCorrect,
                     message |-> IF isCorrect THEN "CONNECTION SECURED"
                                 ELSE "WRONG NODE - CONTINUE",
                     tokensEarned |-> IF isCorrect THEN tokensAwarded ELSE 0,
                     nextRound |->
                        [round |-> nextRound,
                         numbers |-> gen.shownNumbers,
                         displayTime |-> roundConfig.displayTime * 1000,
                         nonce |-> newNonce]])]

\* what the route reads of the session object getSession returned, at
\* validation and after its await
SessionRead(session) ==
    [fid |-> session.fid, round |-> session.round, nonce |-> session.nonce,
     fakeNumber |-> session.fakeNumber, completed |-> session.completed,
     startedAt |-> session.startedAt, tokensEarned |-> session.tokensEarned,
     correctAnswers |-> session.correctAnswers,
     wrongAnswers |-> session.wrongAnswers]

\* getSession as the submit route sees it: << >> for undefined
Found(ss, sessionId) ==
    IF HasSession(ss, sessionId) THEN <<SessionRead(ss[sessionId])>> ELSE <<>>

\* a request suspended at an await of addPlayerTokens
Suspended(pc, fid, sessionId, session, existing) ==
    [pc |-> pc, fid |-> fid, sessionId |-> sessionId, session |-> session,
     existing |-> existing]

\* the requests in flight once request q has moved on to q2
Moved(q, q2) == (reqs (-) SetToBag({q})) (+) SetToBag({q2})

InFlight == BagToSet(reqs)

\* a faulty route: a request that its session's owner sends and that is
\* refused (Invalid nonce, Session already completed) disposes of the session
SubmitAnswerRefusalDisposes(fid, sessionId, selectedNumber, nonce) ==
    /\ Idle
    /\ variant = "cooldown"
    /\ BagCardinality(reqs) < MaxReqs
    /\ LET rej == SubmitRejection(sessions, fid, sessionId, selectedNumber, nonce) IN
       IF rej # NoRejection
       THEN /\ resp' = Response("submit", rej.status, [error |-> rej.error])
            /\ call' = SubmitCall(fid, sessionId, selectedNumber, nonce,
                                  Found(sessions, sessionId))
            /\ sessions' = IF rej.status = 400 /\ HasSession(sessions, sessionId)
                           THEN deleteSession(sessions, sessionId)
                           ELSE sessions
            /\ UNCHANGED <<variant, now, players, issued, db, reqs>>
       ELSE
         LET session == sessions[sessionId]
             isCorrect == selectedNumber = session.fakeNumber
         IN IF isCorrect
            THEN /\ reqs' = reqs (+) SetToBag({Suspended("select", fid, sessionId,
                                                SessionRead(session), Null)})
                 /\ UNCHANGED <<variant, now, players, sessions, issued, db, resp, call>>
            ELSE \E rnd \in RandomOutcomes :
                 LET out == SubmitOutcome(sessions, players, issued, now, fid,
                                          sessionId, SessionRead(session), FALSE, rnd)
                 IN /\ out.issued <= IssuedLimit
                    /\ sessions' = out.sessions
                    /\ players' = out.players
                    /\ issued' = out.issued
                    /\ resp' = out.resp
                    /\ call' = SubmitCall(fid, sessionId, selectedNumber, nonce,
                                          <<SessionRead(session)>>)
                    /\ UNCHANGED <<variant, now, db, reqs>>

\* The route from the request to its first await (or to its response when it
\* does not await): validation, the correct/wrong branch, and for a wrong
\* answer the rest of the route.
SubmitAnswer(fid, sessionId, selectedNumber, nonce) ==
    /\ Idle
    /\ variant = "cooldown"
    /\ BagCardinality(reqs) < MaxReqs
    /\ LET rej == SubmitRejection(sessions, fid, sessionId, selectedNumber, nonce) IN
       IF rej # NoRejection
       THEN /\ resp' = Response("submit", rej.status, [error |-> rej.error])
            /\ call' = SubmitCall(fid, sessionId, selectedNumber, nonce,
                                  Found(sessions, sessionId))
            /\ UNCHANGED <<variant, now, players, sessions, issued, db, reqs>>
       ELSE
         LET session == sessions[sessionId]
             isCorrect == selectedNumber = session.fakeNumber
         IN IF isCorrect
            THEN \* await addPlayerTokens(fid, tokensAwarded)
                 /\ reqs' = reqs (+) SetToBag({Suspended("select", fid, sessionId,
                                                SessionRead(session), Null)})
                 /\ UNCHANGED <<variant, now, players, sessions, issued, db, resp, call>>
            ELSE \E rnd \in RandomOutcomes :
                 LET out == SubmitOutcome(sessions, players, issued, now, fid,
                                          sessionId, SessionRead(session), FALSE, rnd)
                 IN /\ out.issued <= IssuedLimit
                    /\ sessions' = out.sessions
                    /\ players' = out.players
                    /\ issued' = out.issued
                    /\ resp' = out.resp
                    /\ call' = SubmitCall(fid, sessionId, selectedNumber, nonce,
                                          <<SessionRead(session)>>)
                    /\ UNCHANGED <<variant, now, db, reqs>>

\* a faulty route: a failure of addPlayerTokens is not caught and reaches the
\* route's outer catch, which answers 500
DbSelectPropagates(q, outcome) ==
    /\ Idle
    /\ q \in InFlight
    /\ q.pc = "select"
    /\ \/ /\ outcome = "throws"
          /\ reqs' = reqs (-) SetToBag({q})
          /\ resp' = Response("submit", 500, [error |-> "Internal server error"])
          /\ call' = SubmitCall(q.fid, q.sessionId, q.session.fakeNumber,
                                q.session.nonce, <<q.session>>)
       \/ /\ outcome = "data"
          /\ q.fid \in DOMAIN db
          /\ reqs' = Moved(q, [q EXCEPT !.pc = "update", !.existing = db[q.fid]])
          /\ UNCHANGED <<resp, call>>
       \/ /\ outcome = "nodata"
          /\ reqs' = Moved(q, [q EXCEPT !.pc = "insert"])
          /\ UNCHANGED <<resp, call>>
    /\ UNCHANGED <<variant, now, players, sessions, issued, db>>

\* addPlayerTokens up to the answer of its select. "throws": the client
\* cannot be built or the call rejects, the catch returns 0. "data": the row.
\* "nodata": no row, or an error answer (data is null).
DbSelect(q, outcome) ==
    /\ Idle
    /\ q \in InFlight
    /\ q.pc = "select"
    /\ \/ /\ outcome = "throws"
          /\ reqs' = Moved(q, [q EXCEPT !.pc = "resume"])
       \/ /\ outcome = "data"
          /\ q.fid \in DOMAIN db
          /\ reqs' = Moved(q, [q EXCEPT !.pc = "update", !.existing = db[q.fid]])
       \/ /\ outcome = "nodata"
          /\ reqs' = Moved(q, [q EXCEPT !.pc = "insert"])
    /\ UNCHANGED <<variant, now, players, sessions, issued, db, resp, call>>

\* the table after the update or insert addPlayerTokens sends, when the
\* store carries it out
DbWritten(table, pc, fid, existing, amount) ==
    IF pc = "update"
    THEN IF fid \in DOMAIN table THEN [table EXCEPT ![fid] = existing + amount]
         ELSE table
    ELSE IF fid \in DOMAIN table THEN table      \* primary key conflict
         ELSE (fid :> amount) @@ table

\* addPlayerTokens from the answer of its select to its return: the update
\* of the row read, or the insert of a new row. ok = FALSE: the store fails
\* (an error answer, or a rejection the catch swallows).
DbWrite(q, ok) ==
    /\ Idle
    /\ q \in InFlight
    /\ q.pc \in {"update", "insert"}
    /\ db' = IF ok THEN DbWritten(db, q.pc, q.fid, q.existing, TOKENS_PER_CORRECT)
             ELSE db
    /\ reqs' = Moved(q, [q EXCEPT !.pc = "resume", !.existing = Null])
    /\ UNCHANGED <<variant, now, players, sessions, issued, resp, call>>

\* the route after await addPlayerTokens, for a correct answer; limit bounds
\* the number of values generateNonce returns
SubmitResumeWithin(q, limit) ==
    /\ Idle
    /\ q \in InFlight
    /\ q.pc = "resume"
    /\ \E rnd \in RandomOutcomes :
       LET out == SubmitOutcome(sessions, players, issued, now, q.fid,
                                q.sessionId, q.session, TRUE, rnd)
       IN /\ out.issued <= limit
          /\ sessions' = out.sessions
          /\ players' = out.players
          /\ issued' = out.issued
          /\ resp' = out.resp
    /\ call' = SubmitCall(q.fid, q.sessionId, q.session.fakeNumber,
                          q.session.nonce, <<q.session>>)
    /\ reqs' = reqs (-) SetToBag({q})
    /\ UNCHANGED <<variant, now, db>>

SubmitResume(q) == SubmitResumeWithin(q, IssuedLimit)

----------------------------------------------------------------------------
(* POST /api/game/submit, daily variant: a wrong answer ends the session,   *)
(* a correct one is credited through awardTokens. The route has no await.   *)

SubmitOutcomeDaily(ss, ps, iss, t, fid, sessionId, session, isCorrect, rnd) ==
    IF ~isCorrect
    THEN LET ps1 == recordSessionCompletionDaily(ps, fid, FALSE, t)
             stats == getPlayerStatsDaily(ps1, fid, t)
         IN [sessions |-> deleteSession(ss, sessionId),
             players |-> stats.players,
             issued |-> iss,
             resp |-> Response("submit", 200,
                 [correct |-> FALSE,
                  message |-> "CONNECTION BREACHED - TRACE DETECTED - ACCESS DENIED",
                  sessionEnded |-> TRUE,
                  stats |-> stats.result])]
    ELSE
      LET award == awardTokens(ps, fid, 1, t)
          tokensAwarded == award.result
          newTokensEarned == session.tokensEarned + tokensAwarded
      IN IF session.round >= TOTAL_ROUNDS
         THEN LET ps1 == recordSessionCompletionDaily(award.players, fid, TRUE, t)
                  stats == getPlayerStatsDaily(ps1, fid, t)
              IN [sessions |-> updateSession(ss, sessionId,
                                  [completed |-> TRUE,
                                   tokensEarned |-> newTokensEarned]),
                  players |-> stats.players,
                  issued |-> iss,
                  resp |-> Response("submit", 200,
                      [correct |-> TRUE,
                       message |-> "CONNECTION FULLY SECURED",
                       sessionComplete |-> TRUE,
                       tokensEarned |-> newTokensEarned,
                       totalTime |-> (t - session.startedAt) \div 1000,
                       perfectGame |-> TRUE,
                       stats |-> stats.result])]
         ELSE LET nextRound == session.round + 1
                  roundConfig == getRoundConfigDaily(nextRound)
                  gen == GenerateRound(roundConfig.numberCount,
                                       DEFAULT_OPTION_COUNT, rnd)
                  newNonce == generateNonce(iss)
              IN [sessions |-> updateSession(ss, sessionId,
                                  [round |-> nextRound,
                                   shownNumbers |-> gen.shownNumbers,
                                   fakeNumber |-> gen.fakeNumber,
                                   selectionOptions |-> gen.selectionOptions,
                                   nonce |-> newNonce,
                                   roundStartedAt |-> t,
                                   displayTime |-> roundConfig.displayTime,
                                   tokensEarned |-> newTokensEarned]),
                  players |-> award.players,
                  issued |-> iss + 1,
                  resp |-> Response("submit", 200,
                      [correct |-> TRUE,
                       message |-> "CONNECTION SECURED",
                       tokensEarned |-> tokensAwarded,
                       nextRound |->
                          [round |-> nextRound,
                           numbers |-> gen.shownNumbers,
                           displayTime |-> roundConfig.displayTime * 1000,
                           nonce |-> newNonce]])]

SubmitAnswerDaily(fid, sessionId, selectedNumber, nonce) ==
    /\ Idle
    /\ variant = "daily"
    /\ LET rej == SubmitRejection(sessions, fid, sessionId, selectedNumber, nonce) IN
       IF rej # NoRejection
       THEN /\ resp' = Response("submit", rej.status, [error |-> rej.error])
            /\ call' = SubmitCall(fid, sessionId, selectedNumber, nonce,
                                  Found(sessions, sessionId))
            /\ UNCHANGED <<variant, now, players, sessions, issued, db, reqs>>
       ELSE \E rnd \in RandomOutcomes :
            LET session == sessions[sessionId]
                out == SubmitOutcomeDaily(sessions, players, issued, now, fid,
                          sessionId, session,
                          selectedNumber = session.fakeNumber, rnd)
            IN /\ out.issued <= IssuedLimit
               /\ sessions' = out.sessions
               /\ players' = out.players
               /\ issued' = out.issued
               /\ resp' = out.resp
               /\ call' = SubmitCall(fid, sessionId, selectedNumber, nonce,
                                     <<SessionRead(session)>>)
               /\ UNCHANGED <<variant, now, db, reqs>>

----------------------------------------------------------------------------
(* The clock. *)

Tick ==
    /\ Idle
    /\ variant = "cooldown"
    /\ now < MaxTicks * TickMs
    /\ now' = now + TickMs
    /\ UNCHANGED <<variant, players, sessions, issued, db, reqs, resp, call>>

\* the next UTC day begins (daily variant: the daily counters depend on it)
NextDay ==
    /\ Idle
    /\ variant = "daily"
    /\ UtcDay(now) < MaxDays
    /\ now' = (UtcDay(now) + 1) * MS_PER_DAY
    /\ UNCHANGED <<variant, players, sessions, issued, db, reqs, resp, call>>

----------------------------------------------------------------------------
(* The requests that are explored. *)

\* a token generateNonce has not returned: a client's guess
GuessedToken == issued + 1

\* tokens a client can send as a nonce: every value generateNonce has
\* returned (session ids and nonces, current or stale), a guess, or none
TokenInputs == (1..issued) \cup {GuessedToken, Undefined}

\* session ids a client can send: those of the sessions, a guess, or none
SessionIdInputs == DOMAIN sessions \cup {GuessedToken, Undefined}

FidInputs == Fids \cup {Undefined}

\* numbers a client can select for a session: the fake number, the first
\* other option, or none
NumberInputs(sessionId) ==
    IF sessionId \in DOMAIN sessions
    THEN LET session == sessions[sessionId]
             others == { i \in 1..Len(session.selectionOptions) :
                           session.selectionOptions[i] # session.fakeNumber }
         IN { session.fakeNumber, Undefined }
            \cup { session.selectionOptions[i] :
                     i \in { j \in others : \A k \in others : j <= k } }
    ELSE { RAND_BASE, Undefined }

Init ==
    /\ variant \in {"cooldown", "daily"}
    /\ now = 0
    /\ players = <<>>
    /\ sessions = <<>>
    /\ issued = 0
    /\ db = <<>>
    /\ reqs = EmptyBag
    /\ resp = NoResponse
    /\ call = NoCall

\* the response produced is written to the client
SendResponse ==
    /\ resp # NoResponse
    /\ resp' = NoResponse
    /\ call' = NoCall
    /\ UNCHANGED <<variant, now, players, sessions, issued, db, reqs>>

Next ==
    \/ Idle /\ \E fid \in FidInputs : StartSession(fid)
    \/ Idle /\ \E sessionId \in SessionIdInputs, nonce \in TokenInputs :
          FetchOptions(sessionId, nonce)
    \/ Idle /\ \E fid \in FidInputs, sessionId \in SessionIdInputs, nonce \in TokenInputs :
          \E selectedNumber \in NumberInputs(sessionId) :
             SubmitAnswer(fid, sessionId, selectedNumber, nonce)
    \/ Idle /\ \E q \in InFlight, outcome \in {"throws", "data", "nodata"} : DbSelect(q, outcome)
    \/ Idle /\ \E q \in InFlight, ok \in BOOLEAN : DbWrite(q, ok)
    \/ Idle /\ \E q \in InFlight : SubmitResume(q)
    \/ Idle /\ \E fid \in FidInputs, sessionId \in SessionIdInputs, nonce \in TokenInputs :
          \E selectedNumber \in NumberInputs(sessionId) :
             SubmitAnswerDaily(fid, sessionId, selectedNumber, nonce)
    \/ Tick
    \/ NextDay
    \/ SendResponse

Spec == Init /\ [][Next]_vars

----------------------------------------------------------------------------
(* The store modules on their own: their exported operations, called in any *)
(* order, at any time, with any argument.                                   *)

\* the value a store operation returns to its caller
Returned(op, value) == Response(op, 0, value)

Amounts == (0 - 1)..MaxAmount

StoreFids == 1..MaxStoreFid

CallCanStartSession(fid) ==
    /\ Idle
    /\ variant = "cooldown"
    /\ LET r == canStartSession(players, fid, now)
       IN /\ players' = r.players
          /\ resp' = Returned("canStartSession", r.result)
    /\ call' = NoCall
    /\ UNCHANGED <<variant, now, sessions, issued, db, reqs>>

CallStartSessionCooldown(fid) ==
    /\ Idle
    /\ variant = "cooldown"
    /\ fid \in DOMAIN players => players[fid].sessionsInCooldown < MaxCalls
    /\ players' = startSessionCooldown(players, fid, now)
    /\ resp' = Returned("startSessionCooldown", <<>>)
    /\ call' = NoCall
    /\ UNCHANGED <<variant, now, sessions, issued, db, reqs>>

CallRecordSessionCompletion(fid, perfect) ==
    /\ Idle
    /\ variant = "cooldown"
    /\ fid \in DOMAIN players => players[fid].perfectSessions < MaxCalls
    /\ players' = recordSessionCompletion(players, fid, perfect, now)
    /\ resp' = Returned("recordSessionCompletion", <<>>)
    /\ call' = NoCall
    /\ UNCHANGED <<variant, now, sessions, issued, db, reqs>>

CallGetPlayerStats(fid) ==
    /\ Idle
    /\ variant = "cooldown"
    /\ LET r == getPlayerStats(players, fid, now)
       IN /\ players' = r.players
          /\ resp' = Returned("getPlayerStats", r.result)
    /\ call' = NoCall
    /\ UNCHANGED <<variant, now, sessions, issued, db, reqs>>

CallAwardTokens(fid, amount) ==
    /\ Idle
    /\ variant = "daily"
    /\ fid \in DOMAIN players =>
          players[fid].totalTokens < MaxCalls * MAX_TOKENS_PER_DAY
    /\ LET r == awardTokens(players, fid, amount, now)
       IN /\ players' = r.players
          /\ resp' = Returned("awardTokens",
                        [fid |-> fid, amount |-> amount, result |-> r.result])
    /\ call' = NoCall
    /\ UNCHANGED <<variant, now, sessions, issued, db, reqs>>

CallRecordSessionCompletionDaily(fid, perfect) ==
    /\ Idle
    /\ variant = "daily"
    /\ fid \in DOMAIN players => players[fid].dailySessions < MaxCalls
    /\ fid \in DOMAIN players => players[fid].perfectSessions < MaxCalls
    /\ players' = recordSessionCompletionDaily(players, fid, perfect, now)
    /\ resp' = Returned("recordSessionCompletion", <<>>)
    /\ call' = NoCall
    /\ UNCHANGED <<variant, now, sessions, issued, db, reqs>>

CallCanStartSessionDaily(fid) ==
    /\ Idle
    /\ variant = "daily"
    /\ LET r == canStartSessionDaily(players, fid, now)
       IN /\ players' = r.players
          /\ resp' = Returned("canStartSession", r.result)
    /\ call' = NoCall
    /\ UNCHANGED <<variant, now, sessions, issued, db, reqs>>

StoreTick ==
    /\ Idle
    /\ variant = "cooldown"
    /\ now < StoreMaxTicks * TickMs
    /\ now' = now + TickMs
    /\ UNCHANGED <<variant, players, sessions, issued, db, reqs, resp, call>>

NextStore ==
    \/ Idle /\ \E fid \in StoreFids : CallCanStartSession(fid)
    \/ Idle /\ \E fid \in StoreFids : CallStartSessionCooldown(fid)
    \/ Idle /\ \E fid \in StoreFids, perfect \in BOOLEAN : CallRecordSessionCompletion(fid, perfect)
    \/ Idle /\ \E fid \in StoreFids : CallGetPlayerStats(fid)
    \/ Idle /\ \E fid \in StoreFids, amount \in Amounts : CallAwardTokens(fid, amount)
    \/ Idle /\ \E fid \in StoreFids, perfect \in BOOLEAN :
          CallRecordSessionCompletionDaily(fid, perfect)
    \/ Idle /\ \E fid \in StoreFids : CallCanStartSessionDaily(fid)
    \/ StoreTick
    \/ NextDay
    \/ SendResponse

SpecStore == Init /\ [][NextStore]_vars

----------------------------------------------------------------------------
(* recordSessionCompletion over several days: the clock advances by half a  *)
(* day, so that completions fall at the start and in the middle of days.    *)

MaxHalfDays == 7

HalfDayMs == MS_PER_DAY \div 2

StreakClock ==
    /\ Idle
    /\ variant = "cooldown"
    /\ now < MaxHalfDays * HalfDayMs
    /\ now' = now + HalfDayMs
    /\ UNCHANGED <<variant, players, sessions, issued, db, reqs, resp, call>>

NextStreak ==
    \/ Idle /\ \E fid \in StoreFids, perfect \in BOOLEAN :
                  CallRecordSessionCompletion(fid, perfect)
    \/ StreakClock
    \/ SendResponse

SpecStreak == Init /\ [][NextStreak]_vars

----------------------------------------------------------------------------
(* The round generator on its own: generateNumbers, generateFakeNumber and  *)
(* createSelectionOptions applied to a round configuration, for every       *)
(* outcome of the shuffles and for streams of draws with repeated values.   *)

MaxNumberCount == 5
MaxOptionCount == 4

RECURSIVE Factorial(_)
Factorial(n) == IF n <= 1 THEN 1 ELSE n * Factorial(n - 1)

\* round configurations: as many options as the shown numbers and the fake
\* number can fill
RoundConfigs ==
    { c \in [numberCount : 0..MaxNumberCount, optionCount : 0..MaxOptionCount] :
        c.optionCount <= c.numberCount + 1 }

\* values of Math.floor(Math.random() * 900): both ends of the range, and
\* values drawn again while the numbers and the fake number are collected
GenStreams ==
    { <<0, 1, 2, 3, 4, 5, 6, 7, 8, 9, 10>>,
      <<899, 0, 899, 0, 450, 899, 1, 2, 3, 4, 5, 6, 7>>,
      <<5, 5, 5, 6, 6, 7, 8, 9, 10, 11, 12>> }

\* every outcome of the two shuffles, with each stream of draws
GenOutcomes(config) ==
    [stream : GenStreams,
     k1 : 0..(Factorial(config.numberCount) - 1),
     k2 : 0..(Factorial(MaxOptionCount) - 1)]

GenerateCall(config) ==
    [op |-> "generateRound", numberCount |-> config.numberCount,
     optionCount |-> config.optionCount]

CallGenerateRound(config, rnd) ==
    /\ Idle
    /\ resp' = Returned("generateRound",
                  GenerateRound(config.numberCount, config.optionCount, rnd))
    /\ call' = GenerateCall(config)
    /\ UNCHANGED <<variant, now, players, sessions, issued, db, reqs>>

NextGen ==
    \/ Idle /\ \E config \in RoundConfigs :
                  \E rnd \in GenOutcomes(config) : CallGenerateRound(config, rnd)
    \/ SendResponse

SpecGen == Init /\ [][NextGen]_vars

----------------------------------------------------------------------------
(* Properties of POST /api/game/submit. They are stated on the states in    *)
(* which a submit request has just been answered: resp is the answer, call  *)
(* the request and the session the route read for it.                       *)

Answered == call.op = "submit"

\* every required field of the request is present
AllPresent ==
    /\ ~Falsy(call.fid)
    /\ ~Falsy(call.sessionId)
    /\ call.selectedNumber # Undefined
    /\ ~Falsy(call.nonce)

\* the request names an existing session
SessionFound == Len(call.found) = 1

\* the session as the route read it
Seen == call.found[1]

SubmitError(status, error) == Response("submit", status, [error |-> error])

\* the request was refused with this error and the session is as it was read
RefusedWith(status, error) ==
    /\ resp = SubmitError(status, error)
    /\ Found(sessions, call.sessionId) = call.found

\* C1: among the concurrent SubmitAnswer requests on one session that carry
\* the same round nonce at most one is accepted. A request is accepted when
\* the route goes on after addPlayerTokens, advances the session and answers
\* with a result; each acceptance replaces the nonce or completes the session,
\* so a second acceptance for one nonce is a request that goes on although the
\* nonce it carried has been replaced or the session has been completed.
C1_OneAcceptedPerNonce ==
    [][\A q \in InFlight :
          SubmitResume(q) =>
             /\ sessions[q.sessionId].nonce = q.session.nonce
             /\ ~sessions[q.sessionId].completed]_vars

\* C2: SubmitAnswer on an existing session, by its own player, with a nonce
\* that is not the session's current nonce is answered "Invalid nonce" and
\* leaves the session as it was, for every selected number, the fake number
\* included.
C2_StaleNonceIsInvalidNonce ==
    (/\ Answered /\ AllPresent /\ SessionFound
     /\ Seen.fid = call.fid
     /\ call.nonce # Seen.nonce)
    => RefusedWith(400, "Invalid nonce")

\* the owner of a session past its first round sent the nonce of the first
\* round with the fake number, and has been answered "Invalid nonce"
C2_Witness ==
    /\ Answered /\ AllPresent /\ SessionFound
    /\ Seen.fid = call.fid
    /\ Seen.round > 1
    /\ call.nonce = call.sessionId - 1
    /\ call.selectedNumber = Seen.fakeNumber
    /\ resp = SubmitError(400, "Invalid nonce")

\* C3 (as amended): SubmitAnswer by the owning player on a completed session,
\* with the session's current nonce, is answered "Session already completed"
\* and leaves the session as it was, whatever number is selected.
C3_CompletedWithCurrentNonce ==
    (/\ Answered /\ AllPresent /\ SessionFound
     /\ Seen.fid = call.fid
     /\ Seen.completed
     /\ call.nonce = Seen.nonce)
    => RefusedWith(400, "Session already completed")

\* the owner of a completed session sent its current nonce with the fake
\* number, and has been answered "Session already completed"
C3_Witness ==
    /\ Answered /\ AllPresent /\ SessionFound
    /\ Seen.fid = call.fid
    /\ Seen.completed
    /\ call.nonce = Seen.nonce
    /\ call.selectedNumber = Seen.fakeNumber
    /\ resp = SubmitError(400, "Session already completed")

\* C3 as stated: SubmitAnswer by the owning player on a completed session is
\* answered "Session already completed" whatever nonce and number it carries.
C3_CompletedWhateverNonce ==
    (/\ Answered /\ AllPresent /\ SessionFound
     /\ Seen.fid = call.fid
     /\ Seen.completed)
    => RefusedWith(400, "Session already completed")

\* the first precondition of SubmitAnswer that fails for the request, in the
\* stated order: NotFound, Forbidden, InvalidNonce, AlreadyCompleted
FirstFailure ==
    IF ~SessionFound
    THEN [status |-> 404, error |-> "Session not found"]
    ELSE IF Seen.fid # call.fid
    THEN [status |-> 403, error |-> "Session mismatch"]
    ELSE IF Seen.nonce # call.nonce
    THEN [status |-> 400, error |-> "Invalid nonce"]
    ELSE IF Seen.completed
    THEN [status |-> 400, error |-> "Session already completed"]
    ELSE [status |-> 200, error |-> ""]

\* C4: SubmitAnswer reports the first precondition that fails, in the order
\* NotFound, Forbidden, InvalidNonce, AlreadyCompleted, and leaves the session
\* as it was; only when all four hold is the answer evaluated, and the
\* request answered with the verdict on the selected number.
C4_ChecksInOrder ==
    (Answered /\ AllPresent) =>
       IF FirstFailure.status # 200
       THEN RefusedWith(FirstFailure.status, FirstFailure.error)
       ELSE /\ resp.status = 200
            /\ resp.body.correct = (call.selectedNumber = Seen.fakeNumber)

\* a request on a completed session by another player, with a nonce that is
\* not the session's, has been answered Forbidden: three preconditions fail
\* and the first in the order is the one reported
C4_Witness ==
    /\ Answered /\ AllPresent /\ SessionFound
    /\ Seen.fid # call.fid
    /\ Seen.nonce # call.nonce
    /\ Seen.completed
    /\ resp = SubmitError(403, "Session mismatch")

----------------------------------------------------------------------------
(* Properties of the cooldown gate. *)

COOLDOWN_MS == COOLDOWN_MINUTES * 60 * 1000

\* the player has a session that is not completed and whose cooldown window
\* (COOLDOWN_MINUTES from its start) has not ended
OpenSessionInWindow(fid) ==
    \E sessionId \in DOMAIN sessions :
       /\ sessions[sessionId].fid = fid
       /\ ~sessions[sessionId].completed
       /\ now < sessions[sessionId].startedAt + COOLDOWN_MS

\* C5: after a successful StartSession for a player, a second StartSession
\* for the same player, before the first session completes and before the
\* cooldown window ends, is answered 429 with code SESSION_LIMIT and creates
\* no session.
C5_SecondStartRateLimited ==
    [][\A fid \in Fids :
          (variant = "cooldown" /\ OpenSessionInWindow(fid) /\ StartSession(fid))
             => /\ resp'.status = 429
                /\ resp'.body.code = "SESSION_LIMIT"
                /\ sessions' = sessions]_vars

\* C6: once startSessionCooldown has been called for a player (at
\* lastPlayedAt, so that the cooldown ends COOLDOWN_MINUTES later),
\* canStartSession returns allowed = false at every time strictly before the
\* end of the cooldown and allowed = true at every time at or after it.
C6_GateFollowsCooldown ==
    variant = "cooldown" =>
       \A fid \in DOMAIN players :
          players[fid].lastPlayedAt # Null =>
             canStartSession(players, fid, now).result.allowed
                = (now >= players[fid].lastPlayedAt + COOLDOWN_MS)

\* canStartSession has returned allowed at the very end of a cooldown that
\* startSessionCooldown began
C6_Witness ==
    /\ variant = "cooldown"
    /\ resp.op = "canStartSession"
    /\ resp.body.allowed
    /\ \E fid \in DOMAIN players :
          /\ players[fid].lastPlayedAt # Null
          /\ now = players[fid].lastPlayedAt + COOLDOWN_MS

\* C7: of two StartSession requests for one player inside one cooldown window
\* at most one observes allowed and creates a session: a player never has two
\* sessions started less than a cooldown apart.
C7_OneStartPerWindow ==
    variant = "cooldown" =>
       \A s1, s2 \in DOMAIN sessions :
          (/\ s1 # s2
           /\ sessions[s1].fid = sessions[s2].fid
           /\ sessions[s1].startedAt <= sessions[s2].startedAt)
          => sessions[s2].startedAt >= sessions[s1].startedAt + COOLDOWN_MS

----------------------------------------------------------------------------
(* Properties of the token credit. *)

C9_AwardTokensContract ==
    [][\A fid \in StoreFids, amount \in Amounts :
          CallAwardTokens(fid, amount) =>
             LET before == getPlayerDaily(players, fid, now)[fid]
                 returned == resp'.body.result
             IN /\ returned = Min(amount, MAX_TOKENS_PER_DAY - before.tokensToday)
                /\ returned >= 0
                /\ players'[fid].totalTokens = before.totalTokens + returned
                /\ players'[fid].tokensToday = before.tokensToday + returned]_vars

ReportedTotal(ps, fid) == getPlayerStats(ps, fid, now).result.totalTokens

\* C11: on every accepted correct answer the player's in-memory total
\* (PlayerData.totalTokens, as getPlayerStats reports it) advances by the
\* amount credited, TOKENS_PER_CORRECT, whatever became of the write to the
\* durable store.
C11_MemoryTotalAdvances ==
    [][\A q \in InFlight :
          SubmitResume(q) =>
             ReportedTotal(players', q.fid)
                = ReportedTotal(players, q.fid) + TOKENS_PER_CORRECT]_vars

\* C12: a player's total never decreases, whatever the sequence or
\* interleaving of operations: neither the durable counter total_tokens that
\* addPlayerTokens writes, nor the in-memory totalTokens.
C12_TotalsNeverDecrease ==
    [][/\ \A fid \in DOMAIN db :
             fid \in DOMAIN db' /\ db'[fid] >= db[fid]
       /\ \A fid \in DOMAIN players :
             /\ fid \in DOMAIN players'
             /\ players'[fid].totalTokens >= players[fid].totalTokens]_vars

----------------------------------------------------------------------------
(* Properties of the results of POST /api/game/submit, cooldown variant. *)

\* an accepted request has been answered with a terminal result
TerminalResult ==
    /\ variant = "cooldown"
    /\ Answered
    /\ resp.status = 200
    /\ "sessionComplete" \in DOMAIN resp.body

\* the answered request is the correct answer of the last round of a session
\* in which every earlier round was answered correctly too
AllCorrect ==
    /\ Seen.round = TOTAL_ROUNDS
    /\ call.selectedNumber = Seen.fakeNumber
    /\ Seen.tokensEarned = (TOTAL_ROUNDS - 1) * TOKENS_PER_CORRECT

\* C13: the terminal result's perfectGame is true exactly when the session
\* ended with no wrong answer; a session in which the fake number was
\* submitted in every one of the TOTAL_ROUNDS rounds ends with perfectGame
\* true, correctAnswers = TOTAL_ROUNDS and tokensEarned =
\* min(TOTAL_ROUNDS * TOKENS_PER_CORRECT, MAX_TOKENS_PER_SESSION).
C13_PerfectGame ==
    TerminalResult =>
       /\ resp.body.perfectGame = (Field(resp.body, "wrongAnswers") = 0)
       /\ AllCorrect =>
             /\ resp.body.perfectGame
             /\ Field(resp.body, "correctAnswers") = TOTAL_ROUNDS
             /\ resp.body.tokensEarned
                   = Min(TOTAL_ROUNDS * TOKENS_PER_CORRECT, MAX_TOKENS_PER_SESSION)

\* the properties a result carries
Carries(keys) == keys \subseteq DOMAIN resp.body

\* C14: every accepted SubmitAnswer returns one of two result shapes. While
\* round < TOTAL_ROUNDS: an in-progress result carrying correct and the next
\* round's data, and no sessionComplete. When round = TOTAL_ROUNDS: a terminal
\* result carrying correct, sessionComplete = true, tokensEarned,
\* correctAnswers, wrongAnswers, totalTime and perfectGame, and no next round.
C14_TwoResultShapes ==
    (variant = "cooldown" /\ Answered /\ resp.status = 200) =>
       IF Seen.round < TOTAL_ROUNDS
       THEN /\ Carries({"correct", "nextRound"})
            /\ "sessionComplete" \notin DOMAIN resp.body
       ELSE /\ Carries({"correct", "sessionComplete", "tokensEarned",
                        "correctAnswers", "wrongAnswers", "totalTime",
                        "perfectGame"})
            /\ resp.body.sessionComplete
            /\ "nextRound" \notin DOMAIN resp.body

\* the fields of a session that its completion freezes
Frozen(session) ==
    [completed |-> session.completed, round |-> session.round,
     nonce |-> session.nonce, tokensEarned |-> session.tokensEarned,
     correctAnswers |-> session.correctAnswers,
     wrongAnswers |-> session.wrongAnswers]

\* C15: a completed session is terminal: no later step of any request,
\* a submit that was validated before the completion and goes on after it
\* included, sets completed back to false or changes the session's round,
\* nonce, correctAnswers, wrongAnswers or tokensEarned.
C15_CompletedIsTerminal ==
    [][\A sessionId \in DOMAIN sessions :
          sessions[sessionId].completed =>
             /\ sessionId \in DOMAIN sessions'
             /\ Frozen(sessions'[sessionId]) = Frozen(sessions[sessionId])]_vars

----------------------------------------------------------------------------
(* Properties of what the responses disclose. *)

\* the properties under which a response would give the answer away
AnswerKeys == {"fakeNumber", "selectionOptions", "options"}

\* the round data `data` delivers the shown numbers of `session` and nothing
\* of its answer
DeliversOnlyShown(data, session) ==
    /\ DOMAIN data \cap AnswerKeys = {}
    /\ data.numbers = session.shownNumbers
    /\ ~Includes(data.numbers, session.fakeNumber)

\* C16: no response that delivers a round's shown numbers (the success
\* response of StartSession, the next-round data of an in-progress
\* SubmitAnswer result) contains that round's fakeNumber or its
\* selectionOptions.
C16_RoundDataHidesAnswer ==
    /\ (resp.op = "start" /\ resp.status = 200) =>
          DeliversOnlyShown(resp.body, sessions[resp.body.sessionId])
    /\ (Answered /\ resp.status = 200 /\ "nextRound" \in DOMAIN resp.body) =>
          /\ DOMAIN resp.body \cap AnswerKeys = {}
          /\ DeliversOnlyShown(resp.body.nextRound, sessions[call.sessionId])

\* a next round has been delivered for a session whose options contain
\* the fake number
C16_Witness ==
    /\ Answered /\ resp.status = 200
    /\ "nextRound" \in DOMAIN resp.body
    /\ Includes(sessions[call.sessionId].selectionOptions,
                sessions[call.sessionId].fakeNumber)
    /\ resp.body.nextRound.numbers = sessions[call.sessionId].shownNumbers

----------------------------------------------------------------------------
(* Properties of GET /api/game/submit. *)

\* the response in hand answers a request for the options
Queried == call.op = "options"

OptionsError(status, error) == Response("options", status, [error |-> error])

\* C17: FetchOptions on an existing session is answered "Invalid nonce"
\* whenever the nonce supplied is not the session's current nonce, the
\* nonces of its earlier rounds included, and with the current nonce it is
\* answered with exactly the selectionOptions and the round number of the
\* session's current round.
C17_FetchOptionsByCurrentNonce ==
    (Queried /\ ~Falsy(call.nonce) /\ HasSession(sessions, call.sessionId)) =>
        LET session == sessions[call.sessionId] IN
        IF call.nonce # session.nonce
        THEN resp = OptionsError(400, "Invalid nonce")
        ELSE /\ resp = Response("options", 200,
                          [options |-> session.selectionOptions,
                           round |-> session.round])
             /\ Includes(resp.body.options, session.fakeNumber)

\* the options of a session past its first round were requested with the
\* nonce of its first round, and the request was answered "Invalid nonce"
C17_Witness ==
    /\ Queried /\ HasSession(sessions, call.sessionId)
    /\ sessions[call.sessionId].round > 1
    /\ call.nonce = call.sessionId - 1
    /\ resp = OptionsError(400, "Invalid nonce")

\* C18: FetchOptions is read-only: whether it succeeds or fails, every
\* session, every player record of the store and every row of the durable
\* table is the same after it as before it.
C18_FetchOptionsReadOnly ==
    [][(Idle /\ resp'.op = "options") =>
           UNCHANGED <<sessions, players, db>>]_vars

\* the options of a session in its second round have been delivered while
\* the store holds the session and its player
C18_Witness ==
    /\ Queried /\ HasSession(sessions, call.sessionId)
    /\ sessions[call.sessionId].round = 2
    /\ sessions[call.sessionId].fid \in DOMAIN players
    /\ resp.status = 200

----------------------------------------------------------------------------
(* Properties of the round generator, stated on the states in which a       *)
(* round has just been generated: call is the configuration, resp the round.*)

Generated == call.op = "generateRound"

Distinct(seq) == \A i, j \in 1..Len(seq) : i # j => seq[i] # seq[j]

Occurrences(seq, x) == Cardinality({i \in 1..Len(seq) : seq[i] = x})

ThreeDigit(x) == x \in 100..999

\* what a generated round has to be for a configuration
WellFormedRound(numberCount, optionCount, round) ==
    /\ Len(round.shownNumbers) = numberCount
    /\ Distinct(round.shownNumbers)
    /\ \A i \in 1..Len(round.shownNumbers) : ThreeDigit(round.shownNumbers[i])
    /\ ThreeDigit(round.fakeNumber)
    /\ ~Includes(round.shownNumbers, round.fakeNumber)
    /\ Len(round.selectionOptions) = optionCount
    /\ Distinct(round.selectionOptions)
    /\ Occurrences(round.selectionOptions, round.fakeNumber) = 1
    /\ \A i \in 1..Len(round.selectionOptions) :
          \/ round.selectionOptions[i] = round.fakeNumber
          \/ Includes(round.shownNumbers, round.selectionOptions[i])

\* C19 (as amended): for every round configuration with
\* 1 <= optionCount <= numberCount + 1 and every outcome of the random source,
\* the generated round has exactly numberCount shown numbers, all distinct
\* and in 100..999, a fakeNumber in 100..999 that is not among them, and
\* selectionOptions of length optionCount without duplicates that contain
\* the fakeNumber exactly once and otherwise only shown numbers.
C19_GeneratedRoundWellFormed ==
    (Generated /\ call.optionCount >= 1) =>
        WellFormedRound(call.numberCount, call.optionCount, resp.body)

\* a round of five numbers and three options was generated from draws that
\* repeat, and the fake number is the first of the options
C19_Witness ==
    /\ Generated
    /\ call.numberCount = 5 /\ call.optionCount = 3
    /\ Includes(resp.body.shownNumbers, 999)
    /\ Includes(resp.body.shownNumbers, 100)
    /\ resp.body.selectionOptions[1] = resp.body.fakeNumber

\* C19 as stated, for every configuration with optionCount <= numberCount + 1,
\* a configuration of no options included
C19_AnyOptionCount ==
    Generated => WellFormedRound(call.numberCount, call.optionCount, resp.body)

----------------------------------------------------------------------------
(* The policy on a wrong answer. *)

\* the session is over: deleted, or completed
SessionOver(sessionId) ==
    HasSession(sessions, sessionId) => sessions[sessionId].completed

\* C20: a wrong guess ends the entire game: once a SubmitAnswer with a
\* selected number other than the fake number has been accepted, the session
\* is over and no next round has been issued for it (a session that is over
\* accepts no later answer).
C20_WrongGuessEndsGame ==
    (/\ Answered /\ resp.status = 200
     /\ SessionFound
     /\ call.selectedNumber # Seen.fakeNumber)
    => /\ "nextRound" \notin DOMAIN resp.body
       /\ SessionOver(call.sessionId)

----------------------------------------------------------------------------
(* The tokens of a session. *)

----------------------------------------------------------------------------
(* The cooldown of a player: its counter, its engagement, its expiry. *)

\* the sessions started for a player whose cooldown window, COOLDOWN_MINUTES
\* from their start, is still open
StartedInOpenWindow(fid) ==
    {sessionId \in DOMAIN sessions :
        /\ sessions[sessionId].fid = fid
        /\ now < sessions[sessionId].startedAt + COOLDOWN_MS}

\* C22: a player's sessionsInCooldown is at most MAX_SESSIONS_PER_COOLDOWN in
\* every reachable state: within one cooldown window that is still open, no
\* more than MAX_SESSIONS_PER_COOLDOWN sessions have been started for the
\* player.
C22_SessionsPerWindowBounded ==
    variant = "cooldown" =>
       \A fid \in DOMAIN players :
          /\ players[fid].sessionsInCooldown <= MAX_SESSIONS_PER_COOLDOWN
          /\ Cardinality(StartedInOpenWindow(fid)) <= MAX_SESSIONS_PER_COOLDOWN

\* the streak a completion at time t leaves, from the date of the last
\* completion counted and the streak it left
StreakAfter(t, lastStreakDate, currentStreak) ==
    IF lastStreakDate = Null THEN 1
    ELSE IF UtcDay(lastStreakDate) = UtcDay(t) - 1 THEN currentStreak + 1
    ELSE IF UtcDay(lastStreakDate) = UtcDay(t) THEN currentStreak
    ELSE 1

\* C23: the streak update at session completion depends on today, on
\* lastStreakDate and on currentStreak only: a lastStreakDate on the UTC
\* calendar day before today gives currentStreak + 1, one of today leaves the
\* streak as it is, any other and none give 1; lastStreakDate is then set to
\* today.
C23_StreakUpdate ==
    [][\A fid \in StoreFids, perfect \in BOOLEAN :
          CallRecordSessionCompletion(fid, perfect) =>
             LET known == fid \in DOMAIN players
                 lastStreakDate == IF known THEN players[fid].lastStreakDate ELSE Null
                 currentStreak == IF known THEN players[fid].currentStreak ELSE 0
             IN /\ players'[fid].currentStreak
                      = StreakAfter(now, lastStreakDate, currentStreak)
                /\ players'[fid].lastStreakDate = now]_vars

\* a completion in the middle of a day has just been counted as the third
\* day of a streak
C23_Witness ==
    /\ resp.op = "recordSessionCompletion"
    /\ now % MS_PER_DAY # 0
    /\ \E fid \in DOMAIN players :
          /\ players[fid].currentStreak = 3
          /\ players[fid].lastStreakDate = now

----------------------------------------------------------------------------
(* The two ways an accepted answer leaves a session, cooldown variant. The  *)
(* properties are stated on the step that answers the request: call' is the *)
(* request and the session as the route read it, sessions the store before  *)
(* the step and sessions' the store after it.                               *)

\* this step answers a submit request with a result
Accepts ==
    /\ variant = "cooldown"
    /\ Idle
    /\ call'.op = "submit"
    /\ resp'.status = 200

\* the session holds a round generated for the configuration of round n
HoldsRoundOf(session, n) ==
    \E rnd \in RandomOutcomes :
       LET gen == GenerateRound(getRoundConfig(n).numberCount,
                                getRoundConfig(n).optionCount, rnd)
       IN /\ session.shownNumbers = gen.shownNumbers
          /\ session.fakeNumber = gen.fakeNumber
          /\ session.selectionOptions = gen.selectionOptions

\* C24: an accepted SubmitAnswer on a session at round n < TOTAL_ROUNDS
\* leaves completed = false, sets round to exactly n + 1 and replaces
\* shownNumbers, fakeNumber, selectionOptions, nonce and roundStartedAt with
\* freshly generated values; the nonce of round n is accepted neither by
\* SubmitAnswer nor by FetchOptions afterwards: an answer is accepted only
\* while the nonce it carries is the session's, and the nonce of round n is
\* refused once the session has advanced.
C24_AdvancesToNextRound ==
    [][(Accepts /\ call'.found[1].round < TOTAL_ROUNDS) =>
          LET seen == call'.found[1]
              sessionId == call'.sessionId
              after == sessions'[sessionId]
          IN /\ sessions[sessionId].nonce = seen.nonce
             /\ ~after.completed
             /\ after.round = seen.round + 1
             /\ HoldsRoundOf(after, seen.round + 1)
             /\ after.nonce > issued
             /\ after.roundStartedAt = now
             /\ after.nonce # seen.nonce
             /\ SubmitRejection(sessions', seen.fid, sessionId,
                                after.fakeNumber, seen.nonce).error = "Invalid nonce"]_vars

\* the wrong answers given in a session that completes with these tokens:
\* each of the TOTAL_ROUNDS rounds was answered, the correct answers earned
\* TOKENS_PER_CORRECT each
WrongAnswersGiven(tokensEarned) ==
    TOTAL_ROUNDS - (tokensEarned \div TOKENS_PER_CORRECT)

IncrementedByOne(before, after) ==
    /\ IsNumber(before) /\ IsNumber(after)
    /\ after = before + 1

\* C26: under the lenient policy every accepted SubmitAnswer increments
\* exactly one counter: correctAnswers by 1, together with tokensEarned by
\* TOKENS_PER_CORRECT, when the selected number is the fake number;
\* wrongAnswers by 1, with tokensEarned unchanged and no credit call,
\* otherwise. In both cases the session advances to the next round or
\* completes.
C26_OneCounterPerAnswer ==
    [][Accepts =>
          LET seen == call'.found[1]
              after == sessions'[call'.sessionId]
          IN /\ IF call'.selectedNumber = seen.fakeNumber
                THEN /\ IncrementedByOne(seen.correctAnswers, after.correctAnswers)
                     /\ after.wrongAnswers = seen.wrongAnswers
                     /\ after.tokensEarned = seen.tokensEarned + TOKENS_PER_CORRECT
                ELSE /\ IncrementedByOne(seen.wrongAnswers, after.wrongAnswers)
                     /\ after.correctAnswers = seen.correctAnswers
                     /\ after.tokensEarned = seen.tokensEarned
                     /\ db' = db /\ reqs' = reqs
             /\ IF seen.round < TOTAL_ROUNDS
                THEN after.round = seen.round + 1
                ELSE after.completed]_vars

----------------------------------------------------------------------------
(* The stored sessions. *)

\* the optionCount of a round: that of its configuration, and in the daily
\* variant, whose configuration has none, the default of
\* createSelectionOptions
OptionCountOf(round) ==
    IF variant = "cooldown" THEN getRoundConfig(round).optionCount
    ELSE DEFAULT_OPTION_COUNT

\* C27: every stored session, in every reachable state, has a fakeNumber
\* that is not among its shownNumbers, selectionOptions without duplicates
\* that contain the fakeNumber exactly once and otherwise only shown numbers
\* and that are as many as the optionCount of the session's round, and a
\* round from 1 to TOTAL_ROUNDS.
C27_StoredSessionWellFormed ==
    \A sessionId \in DOMAIN sessions :
       LET session == sessions[sessionId] IN
       /\ ~Includes(session.shownNumbers, session.fakeNumber)
       /\ Distinct(session.selectionOptions)
       /\ Occurrences(session.selectionOptions, session.fakeNumber) = 1
       /\ \A i \in 1..Len(session.selectionOptions) :
             \/ session.selectionOptions[i] = session.fakeNumber
             \/ Includes(session.shownNumbers, session.selectionOptions[i])
       /\ session.round \in 1..TOTAL_ROUNDS
       /\ Len(session.selectionOptions) = OptionCountOf(session.round)

\* a session has been advanced to the last round and another is in its
\* first round
C27_Witness ==
    \E s1, s2 \in DOMAIN sessions :
       /\ sessions[s1].round = TOTAL_ROUNDS
       /\ ~sessions[s1].completed
       /\ sessions[s1].selectionOptions[1] # sessions[s1].fakeNumber
       /\ sessions[s2].round = 1

----------------------------------------------------------------------------
(* Properties of the cooldown store's operations, stated on the step that   *)
(* makes the call: players is the store before it, players' the store after.*)

\* the record of a player before a call: the stored one, or the one getPlayer
\* creates
RecordBefore(fid) ==
    IF fid \in DOMAIN players THEN players[fid]
    ELSE [fid |-> fid, sessionsInCooldown |-> 0, lastPlayedAt |-> Null,
          cooldownEndsAt |-> Null, totalTokens |-> 0, perfectSessions |-> 0,
          currentStreak |-> 0, lastStreakDate |-> Null]

\* the cooldown of the record has ended at the time of the call, or there is
\* none
WindowOver(player) ==
    player.cooldownEndsAt = Null \/ now >= player.cooldownEndsAt

\* the fields of a player record that the cooldown does not concern
Achievements(player) ==
    [totalTokens |-> player.totalTokens,
     perfectSessions |-> player.perfectSessions,
     currentStreak |-> player.currentStreak,
     lastStreakDate |-> player.lastStreakDate]

\* what startSessionCooldown has to leave when it finds the counter at
\* `counted`
Engaged(fid, counted) ==
    /\ players'[fid].cooldownEndsAt = now + COOLDOWN_MINUTES * 60 * 1000
    /\ COOLDOWN_MINUTES = 5
    /\ players'[fid].lastPlayedAt = now
    /\ players'[fid].sessionsInCooldown = counted + 1
    /\ Achievements(players'[fid]) = Achievements(RecordBefore(fid))

LazyExpiry(fid) ==
    IF WindowOver(RecordBefore(fid))
    THEN /\ players'[fid].sessionsInCooldown = 0
         /\ players'[fid].cooldownEndsAt = Null
    ELSE /\ players'[fid].sessionsInCooldown = RecordBefore(fid).sessionsInCooldown
         /\ players'[fid].cooldownEndsAt = RecordBefore(fid).cooldownEndsAt

\* C29: cooldown expiry is lazy. An access to a player record through
\* getPlayer, by canStartSession, getPlayerStats or recordSessionCompletion,
\* at a time now >= cooldownEndsAt resets sessionsInCooldown to 0 and clears
\* cooldownEndsAt; an access at now < cooldownEndsAt changes neither field;
\* and the passing of time without an access changes no record.
C29_LazyExpiry ==
    [][/\ \A fid \in StoreFids :
             (\/ CallCanStartSession(fid)
              \/ CallGetPlayerStats(fid)
              \/ \E perfect \in BOOLEAN : CallRecordSessionCompletion(fid, perfect))
             => LazyExpiry(fid)
       /\ StoreTick => players' = players]_vars

\* the end of a cooldown has passed unobserved, and an access has then reset
\* the counter and cleared the end
C29_Witness ==
    /\ variant = "cooldown"
    /\ resp.op \in {"canStartSession", "getPlayerStats"}
    /\ \E fid \in DOMAIN players :
          /\ players[fid].lastPlayedAt # Null
          /\ now > players[fid].lastPlayedAt + COOLDOWN_MS
          /\ players[fid].sessionsInCooldown = 0
          /\ players[fid].cooldownEndsAt = Null

----------------------------------------------------------------------------
(* The disposal of sessions by POST /api/game/submit (route.ts). *)

\* the step answers a submit request that names a session of the store
AnswersFor(sessionId) ==
    /\ call'.op = "submit"
    /\ call'.sessionId = sessionId

\* C31: the submit route of route.ts disposes of no session, whatever the
\* outcome: no step of a SubmitAnswer request, rejected or accepted, correct
\* or wrong, terminal or not, removes a session from the store, and a
\* request that names a session of the store is never answered
\* "Session not found".
C31_SubmitKeepsSessions ==
    [][variant = "cooldown" =>
          \A sessionId \in DOMAIN sessions :
             /\ sessionId \in DOMAIN sessions'
             /\ AnswersFor(sessionId) =>
                   resp' # SubmitError(404, "Session not found")]_vars

\* a wrong answer in the last round has been accepted with a terminal
\* result, and the completed session is still in the store
C31_Witness ==
    /\ TerminalResult
    /\ Seen.round = TOTAL_ROUNDS
    /\ call.selectedNumber # Seen.fakeNumber
    /\ HasSession(sessions, call.sessionId)
    /\ sessions[call.sessionId].completed

\* the step answers a submit request with a refusal
Refuses ==
    /\ call'.op = "submit"
    /\ resp'.op = "submit"
    /\ resp'.status # 200

\* the five refusals of the route
Refusals ==
    { SubmitError(400, "Missing required fields"),
      SubmitError(404, "Session not found"),
      SubmitError(403, "Session mismatch"),
      SubmitError(400, "Invalid nonce"),
      SubmitError(400, "Session already completed") }

\* C32: a SubmitAnswer that is refused (missing fields, NotFound, Forbidden,
\* InvalidNonce or AlreadyCompleted) changes nothing: the session store, the
\* player store and the durable token counter are after it as they were
\* before it, no nonce is issued, and no credit of tokens is set going.
C32_RefusalChangesNothing ==
    [][Refuses =>
          /\ resp' \in Refusals
          /\ sessions' = sessions
          /\ players' = players
          /\ db' = db
          /\ issued' = issued
          /\ reqs' = reqs]_vars

\* a request by the owner of a session with a stale nonce has been refused
\* while the stores hold a session past its first round, a player record and
\* a durable counter with tokens
C32_Witness ==
    /\ Answered /\ AllPresent /\ SessionFound
    /\ resp = SubmitError(400, "Invalid nonce")
    /\ Seen.fid = call.fid
    /\ Seen.tokensEarned > 0
    /\ call.fid \in DOMAIN players
    /\ call.fid \in DOMAIN db
    /\ db[call.fid] > 0

----------------------------------------------------------------------------
(* The submit route of route.ts on sessions whose counters start at zero,   *)
(* its requests processed one after the other. The start route that goes   *)
(* with route.ts is not part of the sources; the start below follows the    *)
(* specification of StartSession and the GameSession interface: the gate,   *)
(* round 1, a session whose correctAnswers and wrongAnswers are 0, the      *)
(* cooldown engaged at the start.                                           *)

\* the session a start creates: the counters of the interface start at 0
ZeroedSession(fid, sessionId, nonce, gen, roundConfig, t) ==
    Merge(StartedSession(fid, sessionId, nonce, gen, roundConfig, t),
          [correctAnswers |-> 0, wrongAnswers |-> 0])

\* no request is suspended at an await: the requests are processed
\* sequentially when a request is taken up only then
Sequential == reqs = EmptyBag

StartSessionZeroed(fid) ==
    /\ Idle
    /\ Sequential
    /\ LET canStart == canStartSession(players, fid, now) IN
       IF ~canStart.result.allowed
       THEN /\ players' = canStart.players
            /\ resp' = Response("start", 429,
                          [error |-> canStart.result.reason, code |-> "RateLimited"])
            /\ call' = NoCall
            /\ UNCHANGED <<variant, now, sessions, issued, db, reqs>>
       ELSE
         \E rnd \in RandomOutcomes :
         LET roundConfig == getRoundConfig(1)
             gen == GenerateRound(roundConfig.numberCount,
                                  roundConfig.optionCount, rnd)
             nonce == generateNonce(issued)
             sessionId == generateNonce(issued + 1)
             session == ZeroedSession(fid, sessionId, nonce, gen, roundConfig, now)
         IN /\ Cardinality(DOMAIN sessions) < MaxSessions
            /\ issued + 2 <= IssuedLimit
            /\ sessions' = createSession(sessions, session)
            /\ issued' = issued + 2
            /\ players' = startSessionCooldown(canStart.players, fid, now)
            /\ resp' = Response("start", 200,
                          [sessionId |-> session.id, round |-> 1,
                           numbers |-> session.shownNumbers,
                           displayTime |-> session.displayTime * 1000,
                           nonce |-> session.nonce])
            /\ call' = NoCall
            /\ UNCHANGED <<variant, now, db, reqs>>

InitSeq ==
    /\ variant = "cooldown"
    /\ now = 0
    /\ players = <<>>
    /\ sessions = <<>>
    /\ issued = 0
    /\ db = <<>>
    /\ reqs = EmptyBag
    /\ resp = NoResponse
    /\ call = NoCall

NextSeq ==
    \/ Idle /\ \E fid \in Fids : StartSessionZeroed(fid)
    \/ Idle /\ Sequential
         /\ \E sessionId \in SessionIdInputs, nonce \in TokenInputs :
               FetchOptions(sessionId, nonce)
    \/ Idle /\ Sequential
         /\ \E fid \in FidInputs, sessionId \in SessionIdInputs, nonce \in TokenInputs :
               \E selectedNumber \in NumberInputs(sessionId) :
                  SubmitAnswer(fid, sessionId, selectedNumber, nonce)
    \/ Idle /\ \E q \in InFlight, outcome \in {"throws", "data", "nodata"} : DbSelect(q, outcome)
    \/ Idle /\ \E q \in InFlight, ok \in BOOLEAN : DbWrite(q, ok)
    \/ Idle /\ \E q \in InFlight : SubmitResume(q)
    \/ Tick
    \/ SendResponse

SpecSeq == InitSeq /\ [][NextSeq]_vars

\* the answers a session has counted
AnswersCounted(session) == session.correctAnswers + session.wrongAnswers

\* the counters of every session add up to the rounds it has been through
CountersFollowRounds ==
    \A sessionId \in DOMAIN sessions :
       LET session == sessions[sessionId]
       IN /\ IsNumber(session.correctAnswers)
          /\ IsNumber(session.wrongAnswers)
          /\ IF session.completed
             THEN /\ AnswersCounted(session) = TOTAL_ROUNDS
                  /\ session.round = TOTAL_ROUNDS
             ELSE AnswersCounted(session) = session.round - 1

\* the step accepts an answer: it is counted once, for a session that was
\* not completed
AcceptanceCounted ==
    (call'.op = "submit" /\ resp'.status = 200) =>
       /\ ~sessions[call'.sessionId].completed
       /\ AnswersCounted(sessions'[call'.sessionId])
             = AnswersCounted(sessions[call'.sessionId]) + 1

----------------------------------------------------------------------------
(* The tokens of a session and its count of correct answers (route.ts). *)

\* C34: in every reachable state each session's tokensEarned equals
\* TOKENS_PER_CORRECT * correctAnswers; BONUS_TOKENS is never added, so the
\* tokensEarned of a completed session without a wrong answer is exactly
\* TOTAL_ROUNDS * TOKENS_PER_CORRECT = 30 and no session's tokensEarned
\* reaches MAX_TOKENS_PER_SESSION.
C34_TokensFollowCorrectAnswers ==
    variant = "cooldown" =>
       \A sessionId \in DOMAIN sessions :
          LET session == sessions[sessionId]
          IN /\ IsNumber(session.correctAnswers)
             /\ session.tokensEarned = TOKENS_PER_CORRECT * session.correctAnswers
             /\ session.tokensEarned < MAX_TOKENS_PER_SESSION
             /\ (session.completed /\ session.wrongAnswers = 0) =>
                   session.tokensEarned = TOTAL_ROUNDS * TOKENS_PER_CORRECT

----------------------------------------------------------------------------
(* The completion of a session is recorded once (route.ts). *)

\* the step answers a submit request with a terminal result: the route has
\* called recordSessionCompletion for the request's session
RecordsCompletion ==
    /\ variant = "cooldown"
    /\ call'.op = "submit"
    /\ resp'.status = 200
    /\ "sessionComplete" \in DOMAIN resp'.body

\* C35: recordSessionCompletion is invoked at most once for a session, under
\* every interleaving of the SubmitAnswer requests on it, two concurrent
\* correct answers on the last round included: the route records the
\* completion only of a session that is not completed yet, and the step adds
\* at most 1 to the player's perfectSessions.
C35_CompletionRecordedOnce ==
    [][RecordsCompletion =>
          /\ ~sessions[call'.sessionId].completed
          /\ players'[call'.fid].perfectSessions
                <= Field(RecordBefore(call'.fid), "perfectSessions") + 1]_vars

----------------------------------------------------------------------------
(* The routes on a durable store that does not fail: every select answers   *)
(* the row that is there, or that there is none, and every update and       *)
(* insert is carried out.                                                   *)

\* what a select answers when the store does not fail
SelectAnswers(q) == IF q.fid \in DOMAIN db THEN {"data"} ELSE {"nodata"}

NextNoFail ==
    \/ Idle /\ \E fid \in FidInputs : StartSession(fid)
    \/ Idle /\ \E fid \in FidInputs, sessionId \in SessionIdInputs, nonce \in TokenInputs :
          \E selectedNumber \in NumberInputs(sessionId) :
             SubmitAnswer(fid, sessionId, selectedNumber, nonce)
    \/ Idle /\ \E q \in InFlight : \E outcome \in SelectAnswers(q) : DbSelect(q, outcome)
    \/ Idle /\ \E q \in InFlight : DbWrite(q, TRUE)
    \/ Idle /\ \E q \in InFlight : SubmitResume(q)
    \/ SendResponse

SpecNoFail == InitSeq /\ [][NextNoFail]_vars

\* the player's durable counter; no row counts as nothing added
DurableTotal(fid) == IF fid \in DOMAIN db THEN db[fid] ELSE 0

\* the session is the only one its player has started, and no request of
\* the player is suspended at addPlayerTokens
OnlySessionAtRest(sessionId) ==
    /\ \A other \in DOMAIN sessions :
          sessions[other].fid = sessions[sessionId].fid => other = sessionId
    /\ \A q \in InFlight : q.fid # sessions[sessionId].fid

\* C36: when the durable store does not fail, the total added to a player's
\* durable counter by the SubmitAnswer requests of one session equals the
\* session's final tokensEarned, under every interleaving of the requests:
\* once the player's only session is completed and none of its requests is
\* in flight, the durable counter holds the session's tokensEarned.
C36_DurableEqualsSessionTokens ==
    \A sessionId \in DOMAIN sessions :
       (sessions[sessionId].completed /\ OnlySessionAtRest(sessionId)) =>
          DurableTotal(sessions[sessionId].fid) = sessions[sessionId].tokensEarned

----------------------------------------------------------------------------
(* addPlayerTokens under concurrent calls (db.ts). *)

\* the store carries out the write of call q without an error: an update,
\* or the insert of a row that is not there
WrittenWithoutError(q) ==
    \/ q.pc = "update"
    \/ q.pc = "insert" /\ q.fid \notin DOMAIN db

\* C37: addPlayerTokens loses no update: under every interleaving of
\* concurrent calls for one player that complete without a store error, each
\* call's write adds the call's amount to the total stored at that moment
\* (nothing for a player without a record), so that after the calls the
\* stored total_tokens is the value before them plus the sum of the amounts.
C37_NoLostUpdate ==
    [][\A q \in InFlight :
          (WrittenWithoutError(q) /\ DbWrite(q, TRUE)) =>
             DurableTotal(q.fid)' = DurableTotal(q.fid) + TOKENS_PER_CORRECT]_vars

----------------------------------------------------------------------------
(* getPlayerStats and canStartSession agree (store, cooldown variant). *)

\* C38: in every reachable state and at every time, the canPlay flag that
\* getPlayerStats returns for a player equals the allowed flag that
\* canStartSession returns for the player at the same time, and when canPlay
\* is false the reported cooldownRemaining is strictly positive and
\* cooldownEndsAt is set.
C38_CanPlayIsAllowed ==
    variant = "cooldown" =>
       \A fid \in StoreFids :
          LET stats == getPlayerStats(players, fid, now).result
              gate == canStartSession(players, fid, now).result
          IN /\ stats.canPlay = gate.allowed
             /\ ~stats.canPlay =>
                   /\ stats.cooldownRemaining > 0
                   /\ stats.cooldownEndsAt # Null
                   /\ stats.cooldownEndsAt = gate.cooldownEndsAt

\* getPlayerStats has reported, some time into a cooldown, that the player
\* cannot play, and canStartSession refuses the player at that time
C38_Witness ==
    /\ variant = "cooldown"
    /\ resp.op = "getPlayerStats"
    /\ ~resp.body.canPlay
    /\ resp.body.cooldownRemaining > 0
    /\ resp.body.cooldownRemaining < COOLDOWN_MS
    /\ \E fid \in StoreFids :
          /\ fid \in DOMAIN players
          /\ players[fid].cooldownEndsAt = resp.body.cooldownEndsAt
          /\ ~canStartSession(players, fid, now).result.allowed

----------------------------------------------------------------------------
(* The routes followed one nonce further than in Spec, on the requests that *)
(* advance a session: those of its owner with its current nonce. A request  *)
(* suspended in the first round can then resume after three further answers *)
(* have completed the session.                                              *)

MaxIssuedDeep == 5

NextDeep ==
    \/ Idle /\ \E fid \in Fids : StartSession(fid)
    \/ Idle /\ \E sessionId \in DOMAIN sessions, nonce \in 1..issued :
          FetchOptions(sessionId, nonce)
    \/ Idle /\ \E sessionId \in DOMAIN sessions :
          \E selectedNumber \in NumberInputs(sessionId) \ {Undefined} :
             SubmitAnswer(sessions[sessionId].fid, sessionId, selectedNumber,
                          sessions[sessionId].nonce)
    \/ Idle /\ \E q \in InFlight, outcome \in {"throws", "data", "nodata"} : DbSelect(q, outcome)
    \/ Idle /\ \E q \in InFlight, ok \in BOOLEAN : DbWrite(q, ok)
    \/ Idle /\ \E q \in InFlight : SubmitResumeWithin(q, MaxIssuedDeep)
    \/ SendResponse

SpecDeep == InitSeq /\ [][NextDeep]_vars

----------------------------------------------------------------------------
(* The options of a completed session (GET of route.ts). *)

\* the options of a completed session were requested with its nonce
QueriedCompleted ==
    /\ variant = "cooldown"
    /\ Queried
    /\ HasSession(sessions, call.sessionId)
    /\ sessions[call.sessionId].completed
    /\ call.nonce = sessions[call.sessionId].nonce

\* a completed session keeps the nonce and the options of its last round
KeepsLastRound(sessionId) ==
    /\ sessionId \in DOMAIN sessions'
    /\ sessions'[sessionId].nonce = sessions[sessionId].nonce
    /\ sessions'[sessionId].selectionOptions = sessions[sessionId].selectionOptions

\* C39: the outcome of FetchOptions depends only on the session id and the
\* nonce: it tests neither the caller's player id nor the completed flag, so
\* a request with the nonce of a completed session is answered with the
\* session's selectionOptions, and after a session is completed the nonce of
\* its last round stays valid and the options stay those of that round in
\* every later state.
C39_LastNonceStaysValid ==
    /\ [](QueriedCompleted =>
            resp = Response("options", 200,
                      [options |-> sessions[call.sessionId].selectionOptions,
                       round |-> sessions[call.sessionId].round]))
    /\ [][variant = "cooldown" =>
            \A sessionId \in DOMAIN sessions :
               sessions[sessionId].completed => KeepsLastRound(sessionId)]_vars

----------------------------------------------------------------------------
(* The loops of generateNumbers and generateFakeNumber, one iteration a     *)
(* step. call holds the call in progress with its local variables, resp the *)
(* value returned. Math.floor(Math.random() * 900) takes the first LoopSpan *)
(* values of its range, so that a call can be asked for as many numbers as  *)
(* the source has values, and for more.                                     *)

LoopSpan == 6
MaxLoopCount == 7

\* the values of Math.floor(Math.random() * 900) that are drawn
LoopDraws == 0..(LoopSpan - 1)

LoopValues == { RandomNumber(u) : u \in LoopDraws }

\* the arrays of n distinct numbers of the range, and of fewer
RECURSIVE DistinctArrays(_)
DistinctArrays(n) ==
    IF n = 0 THEN { <<>> }
    ELSE LET shorter == DistinctArrays(n - 1)
         IN shorter \cup
            { Append(p[1], p[2]) :
                p \in { q \in shorter \X LoopValues :
                          Len(q[1]) = n - 1 /\ ~Includes(q[1], q[2]) } }

\* a faulty loop condition: numbers.size <= count
MoreNumbersInclusive(numbers, count) == Len(numbers) <= count

\* while (numbers.size < count)
MoreNumbers(numbers, count) == Len(numbers) < count

\* while (shownNumbers.includes(fakeNumber)), after the first draw
AnotherFake(shownNumbers, fakeNumber) ==
    fakeNumber = Undefined \/ Includes(shownNumbers, fakeNumber)

NumbersCall(count, numbers) ==
    [op |-> "generateNumbers", count |-> count, numbers |-> numbers]

FakeNumberCall(shownNumbers, fakeNumber) ==
    [op |-> "generateFakeNumber", shownNumbers |-> shownNumbers,
     fakeNumber |-> fakeNumber]

\* generateNumbers(count) is called: numbers = new Set()
BeginGenerateNumbers(count) ==
    /\ Idle
    /\ call = NoCall
    /\ call' = NumbersCall(count, <<>>)
    /\ UNCHANGED <<variant, now, players, sessions, issued, db, reqs, resp>>

\* one iteration: a number is drawn and added to the Set
DrawNumber(u) ==
    /\ Idle
    /\ call.op = "generateNumbers"
    /\ MoreNumbers(call.numbers, call.count)
    /\ LET num == RandomNumber(u)
       IN call' = NumbersCall(call.count,
                     IF Includes(call.numbers, num) THEN call.numbers
                     ELSE Append(call.numbers, num))
    /\ UNCHANGED <<variant, now, players, sessions, issued, db, reqs, resp>>

\* the loop is left: return Array.from(numbers)
ReturnNumbers ==
    /\ Idle
    /\ call.op = "generateNumbers"
    /\ ~MoreNumbers(call.numbers, call.count)
    /\ resp' = Returned("generateNumbers", call.numbers)
    /\ UNCHANGED <<variant, now, players, sessions, issued, db, reqs, call>>

\* generateFakeNumber(shownNumbers) is called: fakeNumber is declared
BeginGenerateFakeNumber(shownNumbers) ==
    /\ Idle
    /\ call = NoCall
    /\ call' = FakeNumberCall(shownNumbers, Undefined)
    /\ UNCHANGED <<variant, now, players, sessions, issued, db, reqs, resp>>

\* one iteration of the do-while: a number is drawn
DrawFakeNumber(u) ==
    /\ Idle
    /\ call.op = "generateFakeNumber"
    /\ AnotherFake(call.shownNumbers, call.fakeNumber)
    /\ call' = FakeNumberCall(call.shownNumbers, RandomNumber(u))
    /\ UNCHANGED <<variant, now, players, sessions, issued, db, reqs, resp>>

\* the loop is left: return fakeNumber
ReturnFakeNumber ==
    /\ Idle
    /\ call.op = "generateFakeNumber"
    /\ ~AnotherFake(call.shownNumbers, call.fakeNumber)
    /\ resp' = Returned("generateFakeNumber", call.fakeNumber)
    /\ UNCHANGED <<variant, now, players, sessions, issued, db, reqs, call>>

NextLoop ==
    \/ \E count \in 0..MaxLoopCount : BeginGenerateNumbers(count)
    \/ \E u \in LoopDraws : DrawNumber(u)
    \/ ReturnNumbers
    \/ \E shownNumbers \in DistinctArrays(LoopSpan) :
          BeginGenerateFakeNumber(shownNumbers)
    \/ \E u \in LoopDraws : DrawFakeNumber(u)
    \/ ReturnFakeNumber
    \/ SendResponse

SpecLoop == InitSeq /\ [][NextLoop]_vars

\* A fair random source: every value is drawn again and again, so an
\* iteration that draws a given value and changes the state is not put off
\* for ever; and a function whose loop is left returns.
FairSource ==
    /\ \A u \in LoopDraws : WF_vars(DrawNumber(u)) /\ WF_vars(DrawFakeNumber(u))
    /\ WF_vars(ReturnNumbers)
    /\ WF_vars(ReturnFakeNumber)

SpecLoopFair == SpecLoop /\ FairSource

\* generateNumbers is running for a count the source's range can fill
GeneratingNumbers ==
    /\ call.op = "generateNumbers"
    /\ call.count <= Cardinality(LoopValues)

\* generateFakeNumber is running on numbers that do not cover the range
GeneratingFakeNumber ==
    /\ call.op = "generateFakeNumber"
    /\ \E v \in LoopValues : ~Includes(call.shownNumbers, v)

\* every round configuration asks for fewer numbers than the range holds
ConfiguredRoundsFit ==
    \A round \in 1..TOTAL_ROUNDS :
       /\ getRoundConfig(round).numberCount < RAND_SPAN
       /\ getRoundConfigDaily(round).numberCount < RAND_SPAN
       /\ getRoundConfig(round).numberCount < LoopSpan

\* C40: round generation terminates. Under a fair random source (every
\* value of the range is drawn again and again) generateNumbers(count)
\* returns for every count up to the size of the range, and
\* generateFakeNumber(shownNumbers) returns whenever shownNumbers does not
\* cover the range, which is so for every configured round.
C40_GenerationTerminates ==
    /\ GeneratingNumbers ~> resp.op = "generateNumbers"
    /\ GeneratingFakeNumber ~> resp.op = "generateFakeNumber"
    /\ []ConfiguredRoundsFit

\* generateNumbers has returned as many numbers as the range holds
C40_Witness ==
    /\ resp.op = "generateNumbers"
    /\ call.op = "generateNumbers"
    /\ call.count = Cardinality(LoopValues)
    /\ Len(resp.body) = call.count

====
